---- MODULE Spec2Model ----
(***************************************************************************)
(* TechMartLK storefront: the cart and session containers of App.tsx and   *)
(* the FirebaseService data facade (orders, reviews, settings), as state   *)
(* machines.  Each subsystem has its own specification over the shared     *)
(* variables; a specification leaves the other subsystems' variables       *)
(* unchanged.                                                              *)
(*                                                                         *)
(* An optional value (offerPrice?, deliveryFee?, comment?) is a sequence   *)
(* of length 0 (undefined / null) or 1 (the value).  A Firestore           *)
(* collection is a function whose domain is the set of document ids that   *)
(* exist.                                                                  *)
(***************************************************************************)
EXTENDS Integers, Sequences, FiniteSets, TLC

VARIABLES
    cart,        \* ShopProvider: useState<CartItem[]>
    isCartOpen,  \* ShopProvider: useState(false)
    user,        \* AuthProvider: useState<User | null>
    localUser,   \* localStorage['techstore_user']
    payment,     \* CheckoutPage: isProcessing and paymentStatus
    checkouts,   \* CheckoutPage: place-order continuations still running
    orders,      \* Firestore collection 'orders'
    products,    \* Firestore collection 'products'
    settingsDoc, \* Firestore document settings/main
    settings,    \* ShopProvider of each client: useState<ShopSettings>
    calls,       \* FirebaseService calls of each client, between read and write
    now,         \* Date.now()
    users,       \* Firestore collection 'users' (the profiles)
    accounts,    \* Firebase Auth: the uid of each registered email
    pending,     \* AuthProvider calls of this page still awaiting the service
    dash,        \* AdminDashboard: mounted, tab, chat selection, scanner
    profilePage, \* UserProfile: mounted, tab, chat subscription
    subs,        \* Firestore: the live-query listeners that are attached
    streams,     \* the camera streams with a live track
    media,       \* getUserMedia promises and animation frames still to run
    chats,       \* Firestore collection 'chats'
    editor,      \* AdminDashboard: fetched products and the product form
    checkoutOpen, \* the route is /checkout: CheckoutPage is mounted
    last         \* the handler that ran last, its arguments and what it returned

vars == <<cart, isCartOpen, user, localUser, payment, checkouts, orders, products,
          settingsDoc, settings, calls, now, users, accounts, pending,
          dash, profilePage, subs, streams, media, chats, editor, checkoutOpen,
          last>>

\* the state of the admin dashboard, the profile page and what they hold
views == <<dash, profilePage, subs, streams, media, chats, editor, checkoutOpen>>

----------------------------------------------------------------------------
(* Values *)

None == <<>>

Some(v) == <<v>>

\* JavaScript truthiness of an optional number: undefined, null and 0 are falsy.
Truthy(opt) == opt # None /\ opt[1] # 0

\* a || b on an optional number a
OrElse(opt, d) == IF Truthy(opt) THEN opt[1] ELSE d

\* a ?? b on an optional number a
Coalesce(opt, d) == IF opt = None THEN d ELSE opt[1]

\* the sum of f[x] over the finite set S
RECURSIVE SumFn(_, _)
SumFn(f, S) ==
    IF S = {} THEN 0
    ELSE LET x == CHOOSE y \in S : TRUE IN f[x] + SumFn(f, S \ {x})

RECURSIVE SumSeq(_)
SumSeq(s) == IF s = <<>> THEN 0 ELSE s[1] + SumSeq(Tail(s))

Range(s) == {s[i] : i \in 1..Len(s)}

Merge_DropsItems(data, updates) ==
    [f \in DOMAIN data \cup DOMAIN updates |->
        IF f \in DOMAIN updates THEN updates[f]
        ELSE IF f = "items" THEN <<>> ELSE data[f]]

\* updateDoc(docRef, updates): the fields named are replaced, the others kept
Merge(data, updates) ==
    [f \in DOMAIN data \cup DOMAIN updates |->
        IF f \in DOMAIN updates THEN updates[f] ELSE data[f]]

----------------------------------------------------------------------------
(* Bounds of the exploration *)

MaxQty == 2

MaxWishlist == 3

MaxHistory == 3

MaxReviews == 3

----------------------------------------------------------------------------
(* The products the storefront has fetched (getProducts), as addToCart gets  *)
(* them.  p2 appears as fetched before and after an admin edit: the product *)
(* form stores parseFloat of its fields, so an offer price of 0, and it     *)
(* stores no delivery fee when that field was never filled.                 *)

ProductIds == {"p1", "p2"}

Catalog ==
    { [id |-> "p1", price |-> 1000, offerPrice |-> None,      deliveryFee |-> Some(100)],
      [id |-> "p2", price |-> 1000, offerPrice |-> Some(800), deliveryFee |-> Some(0)],
      [id |-> "p2", price |-> 500,  offerPrice |-> Some(0),   deliveryFee |-> None] }

\* Profiles a session can start from: register creates role customer, the
\* admin role is assigned in the database.
HomeAddress == [id |-> "a1", city |-> "Colombo", phone |-> "0771234567"]

Users ==
    { [id |-> "u1", email |-> "amal@x.lk", role |-> "customer", wishlist |-> <<>>,
       addresses |-> <<HomeAddress>>],
      [id |-> "u2", email |-> "admin@x.lk", role |-> "admin", wishlist |-> <<>>,
       addresses |-> <<>>] }

\* user === null
NoUser == [id |-> "", email |-> "", role |-> "none", wishlist |-> <<>>, addresses |-> <<>>]

\* the profile document of a cached profile (the document id is its key)
ProfileDoc(u) ==
    [email |-> u.email, role |-> u.role, wishlist |-> u.wishlist, addresses |-> u.addresses]

\* Profiles written before the document id was the auth uid: "legacy" is found
\* by its email only; "u3" holds another email than its account signs in with
\* and is found by its id only.
LegacyProfiles ==
    ("legacy" :> [email |-> "chathu@x.lk", role |-> "customer", wishlist |-> <<>>,
                  addresses |-> <<>>])
    @@ ("u3" :> [email |-> "old@x.lk", role |-> "customer", wishlist |-> <<>>,
                 addresses |-> <<>>])

\* Firebase Auth accounts at the start; dilan's has no profile document
FirstAccounts ==
    ("amal@x.lk" :> "u1") @@ ("admin@x.lk" :> "u2") @@ ("bimal@x.lk" :> "u3")
    @@ ("chathu@x.lk" :> "u5") @@ ("dilan@x.lk" :> "u4")

\* Browser sessions that call the data service; each has at most one call of
\* the service between its read and its write.
Clients == {"c1", "c2"}

OrderIds == {"o1"}

\* ShopProvider: the settings shown until getSettings has answered
\* AdminDashboard before it is mounted: the useState initial values
closedDashboard ==
    [mounted |-> FALSE, activeTab |-> "analytics", activeChatUser |-> <<>>,
     allChatsUnsub |-> <<>>, chatUnsub |-> <<>>,
     chatList |-> <<>>, isScanning |-> FALSE, srcObject |-> <<>>]

\* UserProfile before it is mounted
closedProfile ==
    [mounted |-> FALSE, activeTab |-> "orders", unsubscribe |-> <<>>]

\* the product list and the product form of AdminDashboard before fetchData
closedEditor ==
    [products |-> <<>>, isEditing |-> <<>>, formData |-> <<>>]

loadingSettings ==
    [shopName |-> "TechMart LK", address |-> "Loading...", phone |-> "",
     whatsapp |-> "", homeBannerUrl |-> "", bannerImages |-> None]

Init ==
    /\ cart = <<>>
    /\ isCartOpen = FALSE
    /\ \E u \in Users \cup {NoUser} : user = u /\ localUser = u
    /\ payment = [isProcessing |-> FALSE, status |-> "idle"]
    /\ checkouts = <<>>
    /\ orders = <<>>
    /\ products = <<>>
    /\ settingsDoc = None
    /\ settings = [c \in Clients |-> loadingSettings]
    /\ calls = [c \in Clients |-> [op |-> "idle"]]
    /\ now = 0
    /\ users = [id \in {u.id : u \in Users} |->
                  ProfileDoc(CHOOSE u \in Users : u.id = id)] @@ LegacyProfiles
    /\ accounts = FirstAccounts
    /\ pending = <<>>
    /\ dash = closedDashboard
    /\ profilePage = closedProfile
    /\ subs = {}
    /\ streams = {}
    /\ media = <<>>
    /\ chats = <<>>
    /\ editor = closedEditor
    /\ checkoutOpen = FALSE
    /\ last = [op |-> "boot", arg |-> <<>>]

----------------------------------------------------------------------------
\* Chat: the 'chats' collection, its live queries, and the two pages that
\* subscribe to them (AdminDashboard, UserProfile)

\* most messages stored, and most listeners attached at once
MaxMessages == 3

MaxSubs == 4

ChatIds == 1..MaxMessages

SubIds == 1..MaxSubs

\* the customers who write to the shop
ChatUsers == {"u1", "u3"}

\* the tabs of the dashboard that matter here, of its seven
DashTabs == {"analytics", "orders", "support"}

ProfileTabs == {"orders", "chats"}

\* the query orderBy('timestamp', 'desc') over a collection: the document
\* ids, latest first (equal timestamps in descending id order)
RECURSIVE orderByTimestampDesc(_, _)
orderByTimestampDesc(coll, ids) ==
    IF ids = {} THEN <<>>
    ELSE LET first == CHOOSE i \in ids : \A j \in ids :
                          \/ coll[i].timestamp > coll[j].timestamp
                          \/ coll[i].timestamp = coll[j].timestamp /\ i >= j
         IN  <<first>> \o orderByTimestampDesc(coll, ids \ {first})

\* snapshot.docs.map(doc => ({ id: doc.id, ...doc.data() }))
ChatMessages(coll) ==
    LET ids == orderByTimestampDesc(coll, DOMAIN coll)
    IN  [k \in 1..Len(ids) |->
            [id |-> ids[k], userId |-> coll[ids[k]].userId,
             sender |-> coll[ids[k]].sender, text |-> coll[ids[k]].text,
             timestamp |-> coll[ids[k]].timestamp, read |-> coll[ids[k]].read]]

\* Array.from(new Set(messages.map(m => m.userId))): first occurrences, in order
uniqueUsers(messages) ==
    LET uids == [k \in 1..Len(messages) |-> messages[k].userId]
        firstAt == {k \in 1..Len(uids) : \A j \in 1..(k - 1) : uids[j] # uids[k]}
        RECURSIVE inOrder(_)
        inOrder(ks) == IF ks = {} THEN <<>>
                       ELSE LET k == CHOOSE x \in ks : \A y \in ks : x <= y
                            IN  <<uids[k]>> \o inOrder(ks \ {k})
    IN  inOrder(firstAt)

ConversationList_Oldest(coll) ==
    LET messages == ChatMessages(coll)
        uu == uniqueUsers(messages)
    IN  [k \in 1..Len(uu) |->
            LET userMsgs == SelectSeq(messages, LAMBDA m : m.userId = uu[k])
            IN  [userId |-> uu[k], lastMessage |-> userMsgs[Len(userMsgs)]]]

\* the list subscribeToAllChats hands to its callback and getAllChats returns
ConversationList(coll) ==
    LET messages == ChatMessages(coll)
        uu == uniqueUsers(messages)
    IN  [k \in 1..Len(uu) |->
            LET userMsgs == SelectSeq(messages, LAMBDA m : m.userId = uu[k])
            IN  [userId |-> uu[k], lastMessage |-> userMsgs[1]]]

\* onSnapshot: a listener is attached, under an id none of the others has
Listener(S, kind, userId, owner) ==
    [id |-> CHOOSE i \in SubIds : i \notin {s.id : s \in S},
     kind |-> kind, userId |-> userId, owner |-> owner]

\* calling what onSnapshot returned (held in an effect's cleanup) detaches
\* that listener; an effect that did not subscribe has no cleanup
Unsubscribed_Never(S, unsub) == S

Unsubscribed(S, unsub) == {s \in S : Some(s.id) # unsub}

\* most camera streams acquired, and most scanner callbacks waiting to run
MaxStreams == 2

MaxMedia == 2

StreamIds == 1..MaxStreams

\* AdminDashboard unmounts: React clears videoRef and canvasRef, which the
\* scanner callbacks still waiting to run hold
Detached(q) == [k \in 1..Len(q) |-> [q[k] EXCEPT !.refs = FALSE]]

\* the listeners left when both pages' effects have been cleaned up
ViewsCleanedUp(S) ==
    Unsubscribed(Unsubscribed(Unsubscribed(S, dash.allChatsUnsub), dash.chatUnsub),
                 profilePage.unsubscribe)

\* AdminDashboard rendered with a new tab or chat selection: the effect on
\* [activeTab] and the effect on [activeTab, activeChatUser] are cleaned up
\* and run again when a dependency changed; the <video> element exists only
\* on the orders tab
DashEffects(old, tab, sel, S, coll) ==
    LET tabChanged == tab # old.activeTab
        rerun2 == tabChanged \/ sel # old.activeChatUser
        S1 == IF tabChanged THEN Unsubscribed(S, old.allChatsUnsub) ELSE S
        S2 == IF rerun2 THEN Unsubscribed(S1, old.chatUnsub) ELSE S1
        sub1 == tabChanged /\ tab = "support"
        l1 == Listener(S2, "allChats", "", "dash")
        S3 == IF sub1 THEN S2 \cup {l1} ELSE S2
        sub2 == rerun2 /\ tab = "support" /\ sel # None
        l2 == Listener(S3, "chat", sel[1], "dash")
        S4 == IF sub2 THEN S3 \cup {l2} ELSE S3
    IN  [dash |-> [old EXCEPT
                     !.activeTab = tab,
                     !.activeChatUser = sel,
                     !.allChatsUnsub = IF ~tabChanged THEN @
                                       ELSE IF sub1 THEN Some(l1.id) ELSE None,
                     !.chatUnsub = IF ~rerun2 THEN @
                                   ELSE IF sub2 THEN Some(l2.id) ELSE None,
                     !.chatList = IF sub1 THEN ConversationList(coll) ELSE @,
                     !.srcObject = IF tab = "orders" THEN @ ELSE None],
         subs |-> S4]

\* navigate('/admin'): the page shown before is unmounted; AdminDashboard
\* mounts, and its first effect sends anyone but an admin back to '/'
openDashboard ==
    /\ ~dash.mounted
    /\ dash' = IF user # NoUser /\ user.role = "admin"
               THEN [closedDashboard EXCEPT !.mounted = TRUE]
               ELSE closedDashboard
    /\ profilePage' = closedProfile
    /\ subs' = ViewsCleanedUp(subs)
    /\ last' = [op |-> "openDashboard", arg |-> <<>>]
    /\ UNCHANGED <<cart, isCartOpen, user, localUser, payment, checkouts, orders,
                   products, settingsDoc, settings, calls, now, users, accounts,
                   pending, streams, media, chats, editor>>
    /\ checkoutOpen' = FALSE

\* the admin navigates from the dashboard to another page: it is unmounted
closeDashboard ==
    /\ dash.mounted
    /\ dash' = closedDashboard
    /\ editor' = closedEditor
    /\ subs' = ViewsCleanedUp(subs)
    /\ media' = Detached(media)
    /\ last' = [op |-> "closeDashboard", arg |-> <<>>]
    /\ UNCHANGED <<cart, isCartOpen, user, localUser, payment, checkouts, orders,
                   products, settingsDoc, settings, calls, now, users, accounts,
                   pending, profilePage, streams, chats,
                   checkoutOpen>>

\* a tab button of the dashboard: setActiveTab(tab)
setActiveTab(tab) ==
    /\ dash.mounted
    /\ Cardinality(subs) + 2 <= MaxSubs
    /\ LET r == DashEffects(dash, tab, dash.activeChatUser, subs, chats)
       IN  dash' = r.dash /\ subs' = r.subs
    /\ last' = [op |-> "setActiveTab", arg |-> <<tab>>]
    /\ UNCHANGED <<cart, isCartOpen, user, localUser, payment, checkouts, orders,
                   products, settingsDoc, settings, calls, now, users, accounts,
                   pending, profilePage, streams, media, chats, editor,
                   checkoutOpen>>

\* a row of the conversation list on the support tab: setActiveChatUser
setActiveChatUser(userId) ==
    /\ dash.mounted /\ dash.activeTab = "support"
    /\ \E k \in 1..Len(dash.chatList) : dash.chatList[k].userId = userId
    /\ Cardinality(subs) + 2 <= MaxSubs
    /\ LET r == DashEffects(dash, dash.activeTab, Some(userId), subs, chats)
       IN  dash' = r.dash /\ subs' = r.subs
    /\ last' = [op |-> "setActiveChatUser", arg |-> <<userId>>]
    /\ UNCHANGED <<cart, isCartOpen, user, localUser, payment, checkouts, orders,
                   products, settingsDoc, settings, calls, now, users, accounts,
                   pending, profilePage, streams, media, chats, editor,
                   checkoutOpen>>

\* UserProfile rendered with a new tab or user: its effect on
\* [activeTab, user] is cleaned up and run again
ProfileEffects(old, tab, u, S) ==
    LET S1 == Unsubscribed(S, old.unsubscribe)
        sub == tab = "chats" /\ u # NoUser
        l == Listener(S1, "chat", u.id, "profile")
    IN  [page |-> [old EXCEPT !.activeTab = tab,
                              !.unsubscribe = IF sub THEN Some(l.id) ELSE None],
         subs |-> IF sub THEN S1 \cup {l} ELSE S1]

\* navigate('/profile'): UserProfile mounts; without a user it goes to /login
openProfile ==
    /\ ~profilePage.mounted
    /\ profilePage' = IF user # NoUser
                      THEN [closedProfile EXCEPT !.mounted = TRUE]
                      ELSE closedProfile
    /\ dash' = closedDashboard
    /\ editor' = closedEditor
    /\ subs' = ViewsCleanedUp(subs)
    /\ media' = Detached(media)
    /\ last' = [op |-> "openProfile", arg |-> <<>>]
    /\ UNCHANGED <<cart, isCartOpen, user, localUser, payment, checkouts, orders,
                   products, settingsDoc, settings, calls, now, users, accounts,
                   pending, streams, chats>>
    /\ checkoutOpen' = FALSE

\* the user navigates from the profile page to another page
closeProfile ==
    /\ profilePage.mounted
    /\ profilePage' = closedProfile
    /\ subs' = ViewsCleanedUp(subs)
    /\ last' = [op |-> "closeProfile", arg |-> <<>>]
    /\ UNCHANGED <<cart, isCartOpen, user, localUser, payment, checkouts, orders,
                   products, settingsDoc, settings, calls, now, users, accounts,
                   pending, dash, streams, media, chats, editor,
                   checkoutOpen>>

\* a tab button of the profile page (the admin's profile page has none)
setProfileTab(tab) ==
    /\ profilePage.mounted /\ user.role # "admin"
    /\ tab # profilePage.activeTab
    /\ Cardinality(subs) + 2 <= MaxSubs
    /\ LET r == ProfileEffects(profilePage, tab, user, subs)
       IN  profilePage' = r.page /\ subs' = r.subs
    /\ last' = [op |-> "setProfileTab", arg |-> <<tab>>]
    /\ UNCHANGED <<cart, isCartOpen, user, localUser, payment, checkouts, orders,
                   products, settingsDoc, settings, calls, now, users, accounts,
                   pending, dash, streams, media, chats, editor,
                   checkoutOpen>>

\* setUser(u) renders the mounted page again: AdminDashboard leaves for '/'
\* unless u is an admin, UserProfile leaves for /login without a user and
\* otherwise runs its chat effect again
userChanged(u) ==
    LET leaveDash == dash.mounted /\ (u = NoUser \/ u.role # "admin")
        S1 == IF leaveDash
              THEN Unsubscribed(Unsubscribed(subs, dash.allChatsUnsub), dash.chatUnsub)
              ELSE subs
        r == ProfileEffects(profilePage, profilePage.activeTab, u, S1)
    IN  /\ dash' = IF leaveDash THEN closedDashboard ELSE dash
        /\ editor' = IF leaveDash THEN closedEditor ELSE editor
        /\ profilePage' = IF ~profilePage.mounted THEN profilePage
                          ELSE IF u = NoUser THEN closedProfile ELSE r.page
        /\ subs' = IF profilePage.mounted THEN r.subs ELSE S1
        /\ media' = IF leaveDash THEN Detached(media) ELSE media
        /\ UNCHANGED <<streams, chats, checkoutOpen>>

\* the <video> element is rendered on the orders tab while isScanning
VideoShown(d) == d.mounted /\ d.activeTab = "orders" /\ d.isScanning

\* startScanner up to its await (the camera button while not scanning):
\* setIsScanning(true), getUserMedia is asked for a stream. Its continuation
\* keeps the isScanning of the render the button belongs to
startScanner ==
    /\ dash.mounted /\ dash.activeTab = "orders" /\ ~dash.isScanning
    /\ Len(media) < MaxMedia
    /\ dash' = [dash EXCEPT !.isScanning = TRUE]
    /\ media' = Append(media, [op |-> "getUserMedia", isScanning |-> dash.isScanning,
                               refs |-> TRUE])
    /\ last' = [op |-> "startScanner", arg |-> <<>>]
    /\ UNCHANGED <<cart, isCartOpen, user, localUser, payment, checkouts, orders,
                   products, settingsDoc, settings, calls, now, users, accounts,
                   pending, profilePage, subs, streams, chats, editor,
                   checkoutOpen>>

\* startScanner after getUserMedia has resolved with a stream: with a
\* <video> element it is attached and played, and a frame is requested
getUserMediaResolved(i) ==
    /\ i \in 1..Len(media) /\ media[i].op = "getUserMedia"
    /\ Cardinality(streams) < MaxStreams
    /\ LET stream == CHOOSE id \in StreamIds : id \notin streams
           rest == SubSeq(media, 1, i - 1) \o SubSeq(media, i + 1, Len(media))
       IN  /\ streams' = streams \cup {stream}
           /\ IF media[i].refs /\ VideoShown(dash)
              THEN /\ dash' = [dash EXCEPT !.srcObject = Some(stream)]
                   /\ media' = Append(rest, [media[i] EXCEPT !.op = "frame"])
              ELSE /\ dash' = dash
                   /\ media' = rest
    /\ last' = [op |-> "getUserMedia", arg |-> <<>>, ret |-> "stream"]
    /\ UNCHANGED <<cart, isCartOpen, user, localUser, payment, checkouts, orders,
                   products, settingsDoc, settings, calls, now, users, accounts,
                   pending, profilePage, subs, chats, editor,
                   checkoutOpen>>

\* startScanner after getUserMedia has rejected: the catch block alerts and
\* calls setIsScanning(false), which removes the <video> element
getUserMediaRejected(i) ==
    /\ i \in 1..Len(media) /\ media[i].op = "getUserMedia"
    /\ media' = SubSeq(media, 1, i - 1) \o SubSeq(media, i + 1, Len(media))
    /\ dash' = IF media[i].refs
               THEN [dash EXCEPT !.isScanning = FALSE, !.srcObject = None]
               ELSE dash
    /\ last' = [op |-> "getUserMedia", arg |-> <<>>, ret |-> "Camera access failed"]
    /\ UNCHANGED <<cart, isCartOpen, user, localUser, payment, checkouts, orders,
                   products, settingsDoc, settings, calls, now, users, accounts,
                   pending, profilePage, subs, streams, chats, editor,
                   checkoutOpen>>

\* the tracks that are live after stopScanner has stopped those of the
\* stream attached to the <video> element, if there is one
TracksStopped(live, srcObject) ==
    IF srcObject = None THEN live ELSE live \ {srcObject[1]}

\* stopScanner (the camera button while scanning)
stopScanner ==
    /\ dash.mounted /\ dash.activeTab = "orders" /\ dash.isScanning
    /\ streams' = TracksStopped(streams, dash.srcObject)
    /\ dash' = [dash EXCEPT !.isScanning = FALSE, !.srcObject = None]
    /\ last' = [op |-> "stopScanner", arg |-> <<>>]
    /\ UNCHANGED <<cart, isCartOpen, user, localUser, payment, checkouts, orders,
                   products, settingsDoc, settings, calls, now, users, accounts,
                   pending, profilePage, subs, media, chats, editor,
                   checkoutOpen>>

\* tick, the animation frame callback: it returns at once without the
\* elements or when the isScanning it was created with is false; otherwise
\* a decoded QR code stops the scanner and shows the orders tab, and a
\* frame without one requests the next frame
tick(i, code) ==
    /\ i \in 1..Len(media) /\ media[i].op = "frame"
    /\ LET rest == SubSeq(media, 1, i - 1) \o SubSeq(media, i + 1, Len(media))
       IN  IF ~(media[i].refs /\ VideoShown(dash)) \/ ~media[i].isScanning
           THEN /\ media' = rest
                /\ UNCHANGED <<dash, streams, subs>>
                /\ last' = [op |-> "tick", arg |-> <<>>, ret |-> "return"]
           ELSE IF code
           THEN /\ media' = rest
                /\ streams' = TracksStopped(streams, dash.srcObject)
                /\ LET r == DashEffects([dash EXCEPT !.isScanning = FALSE,
                                                     !.srcObject = None],
                                        "orders", dash.activeChatUser, subs, chats)
                   IN  dash' = r.dash /\ subs' = r.subs
                /\ last' = [op |-> "tick", arg |-> <<>>, ret |-> "code"]
           ELSE /\ UNCHANGED <<media, dash, streams, subs>>
                /\ last' = [op |-> "tick", arg |-> <<>>, ret |-> "frame"]
    /\ UNCHANGED <<cart, isCartOpen, user, localUser, payment, checkouts, orders,
                   products, settingsDoc, settings, calls, now, users, accounts,
                   pending, profilePage, chats, editor,
                   checkoutOpen>>

\* sendMessage: addDoc, and the snapshot every attached all-chats listener
\* of this page then hands to setChats
sendMessage(userId, text, sender) ==
    /\ Cardinality(DOMAIN chats) < MaxMessages
    /\ \E id \in ChatIds \ DOMAIN chats :
          chats' = chats @@ (id :> [userId |-> userId, sender |-> sender,
                                    text |-> text, timestamp |-> now,
                                    read |-> FALSE])
    /\ dash' = IF dash.mounted /\ \E s \in subs : s.kind = "allChats"
               THEN [dash EXCEPT !.chatList = ConversationList(chats')]
               ELSE dash
    /\ last' = [op |-> "sendMessage", arg |-> <<userId, text, sender>>]
    /\ UNCHANGED <<cart, isCartOpen, user, localUser, payment, checkouts, orders,
                   products, settingsDoc, settings, calls, now, users, accounts,
                   pending, profilePage, subs, streams, media, editor,
                   checkoutOpen>>

\* getAllChats: getDocs of the same query, grouped the same way
getAllChats ==
    /\ last' = [op |-> "getAllChats", arg |-> <<>>, ret |-> ConversationList(chats)]
    /\ UNCHANGED <<cart, isCartOpen, user, localUser, payment, checkouts, orders,
                   products, settingsDoc, settings, calls, now, users, accounts,
                   pending, views>>

----------------------------------------------------------------------------
(* Cart container (ShopProvider) *)

HasLine(c, id) == \E i \in 1..Len(c) : c[i].id = id

AddLine_AlwaysAppend(prev, product) ==
    Append(prev, [id |-> product.id, price |-> product.price,
                  offerPrice |-> product.offerPrice,
                  deliveryFee |-> product.deliveryFee, quantity |-> 1])

\* setCart updater of addToCart
AddLine(prev, product) ==
    IF HasLine(prev, product.id)
    THEN [i \in 1..Len(prev) |->
            IF prev[i].id = product.id
            THEN [prev[i] EXCEPT !.quantity = prev[i].quantity + 1]
            ELSE prev[i]]
    ELSE Append(prev, [id |-> product.id, price |-> product.price,
                       offerPrice |-> product.offerPrice,
                       deliveryFee |-> product.deliveryFee, quantity |-> 1])

\* setCart updater of removeFromCart
RemoveLine(prev, id) == SelectSeq(prev, LAMBDA item : item.id # id)

SetQuantity_NegativeOnly(prev, id, qty) ==
    IF qty < 0 THEN RemoveLine(prev, id)
    ELSE [i \in 1..Len(prev) |->
            IF prev[i].id = id THEN [prev[i] EXCEPT !.quantity = qty] ELSE prev[i]]

\* setCart updater of updateQuantity
SetQuantity(prev, id, qty) ==
    IF qty < 1 THEN RemoveLine(prev, id)
    ELSE [i \in 1..Len(prev) |->
            IF prev[i].id = id THEN [prev[i] EXCEPT !.quantity = qty] ELSE prev[i]]

cartTotal_NullishOffer(c) ==
    SumSeq([i \in 1..Len(c) |-> Coalesce(c[i].offerPrice, c[i].price) * c[i].quantity])

\* useMemo cartTotal
cartTotal(c) ==
    SumSeq([i \in 1..Len(c) |-> OrElse(c[i].offerPrice, c[i].price) * c[i].quantity])

QtyOf(c, id) ==
    IF HasLine(c, id) THEN (CHOOSE l \in Range(c) : l.id = id).quantity ELSE 0

addToCart(product) ==
    /\ QtyOf(cart, product.id) < MaxQty
    /\ last' = [op |-> "addToCart", arg |-> <<product>>, had |-> HasLine(cart, product.id)]
    /\ IF localUser.role = "admin"
       THEN UNCHANGED <<cart, isCartOpen>>
       ELSE /\ cart' = AddLine(cart, product)
            /\ isCartOpen' = TRUE
    /\ UNCHANGED <<user, localUser, payment, checkouts, orders, products, settingsDoc, settings, calls, now,
                   users, accounts, pending, views>>

removeFromCart(id) ==
    /\ last' = [op |-> "removeFromCart", arg |-> <<id>>, had |-> HasLine(cart, id)]
    /\ cart' = RemoveLine(cart, id)
    /\ UNCHANGED <<isCartOpen, user, localUser, payment, checkouts, orders, products,
                   settingsDoc, settings, calls, now,
                   users, accounts, pending, views>>

updateQuantity(id, qty) ==
    /\ last' = [op |-> "updateQuantity", arg |-> <<id, qty>>, had |-> HasLine(cart, id)]
    /\ cart' = SetQuantity(cart, id, qty)
    /\ UNCHANGED <<isCartOpen, user, localUser, payment, checkouts, orders, products,
                   settingsDoc, settings, calls, now,
                   users, accounts, pending, views>>

clearCart ==
    /\ last' = [op |-> "clearCart", arg |-> <<>>]
    /\ cart' = <<>>
    /\ UNCHANGED <<isCartOpen, user, localUser, payment, checkouts, orders, products,
                   settingsDoc, settings, calls, now,
                   users, accounts, pending, views>>

closeCart ==
    /\ isCartOpen
    /\ isCartOpen' = FALSE
    /\ last' = [op |-> "setIsCartOpen", arg |-> <<FALSE>>]
    /\ UNCHANGED <<cart, user, localUser, payment, checkouts, orders, products,
                   settingsDoc, settings, calls, now,
                   users, accounts, pending, views>>

CartNext ==
    \/ \E p \in Catalog : addToCart(p)
    \/ \E id \in ProductIds : removeFromCart(id)
    \/ \E id \in ProductIds, qty \in -1..MaxQty : updateQuantity(id, qty)
    \/ clearCart
    \/ closeCart

CartSpec == Init /\ [][CartNext]_vars

----------------------------------------------------------------------------
(* Session container (AuthProvider): the wishlist *)

WishIds == ProductIds \cup {"p3", "p4"}

newWishlist_AlwaysAdd(wishlist, productId) == Append(wishlist, productId)

\* toggleWishlist: isLiked ? filter : [...wishlist, productId]
newWishlist(wishlist, productId) ==
    IF productId \in Range(wishlist)
    THEN SelectSeq(wishlist, LAMBDA id : id # productId)
    ELSE Append(wishlist, productId)

toggleWishlist(productId) ==
    /\ Len(user.wishlist) < MaxWishlist \/ productId \in Range(user.wishlist)
    /\ last' = [op |-> "toggleWishlist", arg |-> <<productId>>,
                prev |-> Range(user.wishlist)]
    /\ IF user = NoUser
       THEN UNCHANGED <<user, localUser>>
       ELSE LET updatedUser == [user EXCEPT !.wishlist = newWishlist(user.wishlist, productId)]
            IN  /\ user' = updatedUser
                /\ localUser' = updatedUser
    /\ UNCHANGED <<cart, isCartOpen, payment, checkouts, orders, products, settingsDoc, settings, calls, now,
                   users, accounts, pending,
                   checkoutOpen>>
    /\ userChanged(user')

WishNext == \E id \in WishIds : toggleWishlist(id)

WishSpec == Init /\ [][WishNext]_vars

----------------------------------------------------------------------------
(* Data service (FirebaseService): orders *)

Statuses == {"Pending", "Shipped", "Delivered", "Cancelled"}

\* the admin's status comment (the dashboard passes its text field)
Comments == {"delayed"}

MsPerHour == 1000 * 60 * 60

CancelWindowHours == 24

\* Sample instants of Date.now(): the start, and the two sides of the end of
\* the cancellation window of an order created at the start.
Instants == {0, CancelWindowHours * MsPerHour, CancelWindowHours * MsPerHour + 1}

Idle == [op |-> "idle"]

Exists(coll, id) == id \in DOMAIN coll

newOrderData_NoHistory(userId, items, total, shippingDetails, paymentMethod, deliveryFee, t) ==
    [userId |-> userId, items |-> items, totalAmount |-> total,
     deliveryFee |-> deliveryFee, status |-> "Pending",
     statusHistory |-> <<>>,
     adminComment |-> None, createdAt |-> t,
     shippingDetails |-> shippingDetails, paymentMethod |-> paymentMethod]

\* createOrder: the document handed to addDoc, at time t
newOrderData(userId, items, total, shippingDetails, paymentMethod, deliveryFee, t) ==
    [userId |-> userId, items |-> items, totalAmount |-> total,
     deliveryFee |-> deliveryFee, status |-> "Pending",
     statusHistory |-> <<[status |-> "Pending",
                          comment |-> "Order placed successfully",
                          timestamp |-> t]>>,
     adminComment |-> None, createdAt |-> t,
     shippingDetails |-> shippingDetails, paymentMethod |-> paymentMethod]

pushHistory_ReplaceLast(history, entry) ==
    IF history = <<>> THEN <<entry>>
    ELSE [history EXCEPT ![Len(history)] = entry]

pushHistory_Prepend(history, entry) == <<entry>> \o history

\* history.push(entry)
pushHistory(history, entry) == Append(history, entry)

cancelRejected_AtWindowEnd(order, t) ==
    \/ (t - order.createdAt) >= CancelWindowHours * MsPerHour
    \/ order.status # "Pending"

\* cancelOrder: hoursDiff > 24 || order.status !== 'Pending', at time t.
\* hoursDiff = timeDiff / MsPerHour exceeds 24 exactly when timeDiff exceeds
\* 24 * MsPerHour (timeDiff is a whole number of milliseconds).
cancelRejected(order, t) ==
    \/ (t - order.createdAt) > CancelWindowHours * MsPerHour
    \/ order.status # "Pending"

createOrder_TakesStock(userId, items, total, shippingDetails, paymentMethod, deliveryFee) ==
    \E id \in OrderIds \ DOMAIN orders :
        LET data == newOrderData(userId, items, total, shippingDetails,
                                 paymentMethod, deliveryFee, now)
        IN  /\ orders' = orders @@ (id :> data)
            /\ products' = [p \in DOMAIN products |->
                               [products[p] EXCEPT !.stock = 0]]
            /\ last' = [op |-> "createOrder", arg |-> <<userId>>, ret |-> <<id, data>>]
            /\ UNCHANGED <<cart, isCartOpen, user, localUser, payment, checkouts,
                           settingsDoc, settings, calls, now, users, accounts, pending, views>>

\* addDoc lands: the order document exists under a generated id
createOrder(userId, items, total, shippingDetails, paymentMethod, deliveryFee) ==
    \E id \in OrderIds \ DOMAIN orders :
        LET data == newOrderData(userId, items, total, shippingDetails,
                                 paymentMethod, deliveryFee, now)
        IN  /\ orders' = orders @@ (id :> data)
            /\ last' = [op |-> "createOrder", arg |-> <<userId>>, ret |-> <<id, data>>]
            /\ UNCHANGED <<cart, isCartOpen, user, localUser, payment, checkouts,
                           products, settingsDoc, settings, calls, now,
                   users, accounts, pending, views>>

\* updateOrderStatus up to the end of getDoc: an absent document ends the call
updateOrderStatusRead(c, orderId, status, comment) ==
    /\ calls[c] = Idle
    /\ Exists(orders, orderId) => Len(orders[orderId].statusHistory) < MaxHistory
    /\ IF Exists(orders, orderId)
       THEN /\ calls' = [calls EXCEPT ![c] =
                            [op |-> "updateOrderStatus", orderId |-> orderId,
                             status |-> status, comment |-> comment,
                             order |-> orders[orderId]]]
            /\ last' = [op |-> "getDoc", arg |-> <<orderId>>]
       ELSE /\ calls' = calls
            /\ last' = [op |-> "updateOrderStatus",
                        arg |-> <<orderId, status, comment>>, ret |-> "void",
                        stale |-> FALSE]
    /\ UNCHANGED <<cart, isCartOpen, user, localUser, payment, checkouts, orders,
                   products, settingsDoc, settings, now,
                   users, accounts, pending, views>>

\* updateOrderStatus from history.push to the end of updateDoc
updateOrderStatusWrite(c) ==
    /\ calls[c].op = "updateOrderStatus"
    /\ LET call == calls[c]
           history == pushHistory(call.order.statusHistory,
                                  [status |-> call.status, comment |-> call.comment,
                                   timestamp |-> now])
       IN  /\ orders' = [orders EXCEPT ![call.orderId] =
                            Merge(@, [status |-> call.status,
                                      adminComment |-> Some(call.comment),
                                      statusHistory |-> history])]
           /\ last' = [op |-> "updateOrderStatus",
                       arg |-> <<call.orderId, call.status, call.comment>>,
                       ret |-> "void", stale |-> call.order # orders[call.orderId]]
    /\ calls' = [calls EXCEPT ![c] = Idle]
    /\ UNCHANGED <<cart, isCartOpen, user, localUser, payment, checkouts,
                   products, settingsDoc, settings, now,
                   users, accounts, pending, views>>

\* cancelOrder up to the end of getDoc: an absent document returns false
cancelOrderRead(c, orderId) ==
    /\ calls[c] = Idle
    /\ IF Exists(orders, orderId)
       THEN /\ calls' = [calls EXCEPT ![c] =
                            [op |-> "cancelOrder", orderId |-> orderId,
                             order |-> orders[orderId]]]
            /\ last' = [op |-> "getDoc", arg |-> <<orderId>>]
       ELSE /\ calls' = calls
            /\ last' = [op |-> "cancelOrder", arg |-> <<orderId>>, ret |-> FALSE,
                        stale |-> FALSE]
    /\ UNCHANGED <<cart, isCartOpen, user, localUser, payment, checkouts, orders,
                   products, settingsDoc, settings, now,
                   users, accounts, pending, views>>

\* cancelOrder from the window test to its return
cancelOrderFinish(c) ==
    /\ calls[c].op = "cancelOrder"
    /\ LET call == calls[c]
           history == pushHistory(call.order.statusHistory,
                                  [status |-> "Cancelled",
                                   comment |-> "Cancelled by user",
                                   timestamp |-> now])
       IN  IF cancelRejected(call.order, now)
           THEN /\ orders' = orders
                /\ last' = [op |-> "cancelOrder", arg |-> <<call.orderId>>, ret |-> FALSE,
                            stale |-> call.order # orders[call.orderId]]
           ELSE /\ orders' = [orders EXCEPT ![call.orderId] =
                                 Merge(@, [status |-> "Cancelled",
                                           statusHistory |-> history])]
                /\ last' = [op |-> "cancelOrder", arg |-> <<call.orderId>>, ret |-> TRUE,
                            stale |-> call.order # orders[call.orderId]]
    /\ calls' = [calls EXCEPT ![c] = Idle]
    /\ UNCHANGED <<cart, isCartOpen, user, localUser, payment, checkouts,
                   products, settingsDoc, settings, now,
                   users, accounts, pending, views>>

\* time passes
Tick ==
    /\ \E t \in Instants : t > now /\ now' = t
    /\ last' = [op |-> "tick", arg |-> <<>>]
    /\ UNCHANGED <<cart, isCartOpen, user, localUser, payment, checkouts, orders,
                   products, settingsDoc, settings, calls, users, accounts, pending, views>>

\* what a checkout of one unit of p1 passes to createOrder
PlacedItems == <<[id |-> "p1", price |-> 1000, offerPrice |-> None,
                  deliveryFee |-> Some(100), quantity |-> 1]>>

NoCallRunning == \A c \in Clients : calls[c] = Idle

OrderNext ==
    \/ createOrder("u1", PlacedItems, 1100, HomeAddress, "COD", 100)
    \/ \E c \in Clients, o \in OrderIds, st \in Statuses, cm \in Comments :
          updateOrderStatusRead(c, o, st, cm)
    \/ \E c \in Clients : updateOrderStatusWrite(c)
    \/ \E c \in Clients, o \in OrderIds : cancelOrderRead(c, o)
    \/ \E c \in Clients : cancelOrderFinish(c)

\* the customer u1 is signed in
OrderInit == Init /\ user.id = "u1"

\* an admin is signed in
AdminInit == Init /\ user.role = "admin"

\* calls of the data service may overlap; the clock stands still
OrderSpec == OrderInit /\ [][OrderNext]_vars

OrderSeqNext ==
    \/ createOrder("u1", PlacedItems, 1100, HomeAddress, "COD", 100)
    \/ /\ NoCallRunning
       /\ \E c \in Clients, o \in OrderIds, st \in Statuses, cm \in Comments :
             updateOrderStatusRead(c, o, st, cm)
    \/ \E c \in Clients : updateOrderStatusWrite(c)
    \/ /\ NoCallRunning
       /\ \E c \in Clients, o \in OrderIds : cancelOrderRead(c, o)
    \/ \E c \in Clients : cancelOrderFinish(c)
    \/ Tick

\* every call of the data service returns before the next one is made
OrderSeqSpec == OrderInit /\ [][OrderSeqNext]_vars

----------------------------------------------------------------------------
(* Data service (FirebaseService): products and their reviews *)

ProductDocIds == {"p1"}

\* what the admin's product form submits
ProductForms == {[price |-> 1000, offerPrice |-> Some(0), stock |-> 5]}

\* star ratings the review form submits
Ratings == 1..5

ReviewIds == 1..(MaxReviews + 1)

RECURSIVE GCD(_, _)
GCD(a, b) == IF b = 0 THEN a ELSE GCD(b, a % b)

\* the JavaScript number a / b (b > 0), as the fraction in lowest terms
Div(a, b) == [num |-> a \div GCD(a, b), den |-> b \div GCD(a, b)]

\* the JavaScript number 0
Zero == [num |-> 0, den |-> 1]

\* updatedReviews.reduce((acc, r) => acc + r.rating, 0)
totalRating(reviews) == SumSeq([i \in 1..Len(reviews) |-> reviews[i].rating])

\* addReview: totalRating / updatedReviews.length
addReviewRating(updatedReviews) == Div(totalRating(updatedReviews), Len(updatedReviews))

deleteReviewRating_Stale(product, updatedReviews) == product.rating

\* deleteReview: length > 0 ? totalRating / length : 0
deleteReviewRating(product, updatedReviews) ==
    IF Len(updatedReviews) > 0
    THEN Div(totalRating(updatedReviews), Len(updatedReviews))
    ELSE Zero

\* addDoc lands: the product document exists under a generated id
addProduct(product) ==
    \E id \in ProductDocIds \ DOMAIN products :
        LET newProductData ==
                [price |-> product.price,
                 offerPrice |-> IF Truthy(product.offerPrice)
                                THEN product.offerPrice ELSE None,
                 stock |-> product.stock, rating |-> Zero, reviews |-> <<>>]
        IN  /\ products' = products @@ (id :> newProductData)
            /\ last' = [op |-> "addProduct", arg |-> <<>>, ret |-> <<id, newProductData>>]
            /\ UNCHANGED <<cart, isCartOpen, user, localUser, payment, checkouts,
                           orders, settingsDoc, settings, calls, now,
                   users, accounts, pending, views>>

\* updateProduct: updateDoc rejects on an absent document
updateProduct(id, updates) ==
    /\ IF Exists(products, id)
       THEN /\ products' = [products EXCEPT ![id] = Merge(@, updates)]
            /\ last' = [op |-> "updateProduct", arg |-> <<id, updates>>, ret |-> "ok"]
       ELSE /\ products' = products
            /\ last' = [op |-> "updateProduct", arg |-> <<id, updates>>,
                        ret |-> "Error: not-found"]
    /\ UNCHANGED <<cart, isCartOpen, user, localUser, payment, checkouts,
                   orders, settingsDoc, settings, calls, now,
                   users, accounts, pending, views>>

\* deleteProduct: deleteDoc
deleteProduct(id) ==
    /\ products' = [d \in DOMAIN products \ {id} |-> products[d]]
    /\ last' = [op |-> "deleteProduct", arg |-> <<id>>, ret |-> "void"]
    /\ UNCHANGED <<cart, isCartOpen, user, localUser, payment, checkouts,
                   orders, settingsDoc, settings, calls, now,
                   users, accounts, pending, views>>

\* addReview up to the end of getDoc: an absent document throws
addReviewRead(c, productId, userId, rating) ==
    /\ calls[c] = Idle
    /\ Exists(products, productId) => Len(products[productId].reviews) < MaxReviews
    /\ IF Exists(products, productId)
       THEN /\ calls' = [calls EXCEPT ![c] =
                            [op |-> "addReview", productId |-> productId,
                             userId |-> userId, rating |-> rating,
                             product |-> products[productId]]]
            /\ last' = [op |-> "getDoc", arg |-> <<productId>>]
       ELSE /\ calls' = calls
            /\ last' = [op |-> "addReview", arg |-> <<productId, rating>>,
                        ret |-> "Error: Product not found"]
    /\ UNCHANGED <<cart, isCartOpen, user, localUser, payment, checkouts, orders,
                   products, settingsDoc, settings, now,
                   users, accounts, pending, views>>

\* Math.random().toString(36).substr(2, 9) gives an id no review has: none of
\* those fetched, none of those stored
UsedReviewIds(call) ==
    {r.id : r \in Range(call.product.reviews)}
    \cup (IF Exists(products, call.productId)
          THEN {r.id : r \in Range(products[call.productId].reviews)} ELSE {})

FetchedReviews_AtWrite(call, coll) ==
    IF Exists(coll, call.productId) THEN coll[call.productId].reviews
    ELSE call.product.reviews

\* product.reviews || [] of the document addReview fetched
FetchedReviews(call, coll) == call.product.reviews

\* addReview from the new review to the end of updateDoc (which rejects when
\* the document has been deleted meanwhile)
addReviewWrite(c) ==
    /\ calls[c].op = "addReview"
    /\ LET call == calls[c] IN
       \E id \in ReviewIds \ UsedReviewIds(call) :
         LET newReview == [id |-> id, userId |-> call.userId, rating |-> call.rating,
                           date |-> now]
             updatedReviews == Append(FetchedReviews(call, products), newReview)
             newRating == addReviewRating(updatedReviews)
         IN  IF Exists(products, call.productId)
             THEN /\ products' = [products EXCEPT ![call.productId] =
                                     Merge(@, [reviews |-> updatedReviews,
                                               rating |-> newRating])]
                  /\ last' = [op |-> "addReview", arg |-> <<call.productId, call.rating>>,
                              ret |-> "ok",
                              overwritten |->
                                  Range(products[call.productId].reviews)
                                      \ Range(updatedReviews)]
             ELSE /\ products' = products
                  /\ last' = [op |-> "addReview", arg |-> <<call.productId, call.rating>>,
                              ret |-> "Error: not-found"]
    /\ calls' = [calls EXCEPT ![c] = Idle]
    /\ UNCHANGED <<cart, isCartOpen, user, localUser, payment, checkouts, orders,
                   settingsDoc, settings, now,
                   users, accounts, pending, views>>

\* deleteReview up to the end of getDoc: an absent document throws
deleteReviewRead(c, productId, reviewId) ==
    /\ calls[c] = Idle
    /\ IF Exists(products, productId)
       THEN /\ calls' = [calls EXCEPT ![c] =
                            [op |-> "deleteReview", productId |-> productId,
                             reviewId |-> reviewId, product |-> products[productId]]]
            /\ last' = [op |-> "getDoc", arg |-> <<productId>>]
       ELSE /\ calls' = calls
            /\ last' = [op |-> "deleteReview", arg |-> <<productId, reviewId>>,
                        ret |-> "Error: Product not found"]
    /\ UNCHANGED <<cart, isCartOpen, user, localUser, payment, checkouts, orders,
                   products, settingsDoc, settings, now,
                   users, accounts, pending, views>>

\* deleteReview from the filter to the end of updateDoc (which rejects when
\* the document has been deleted meanwhile)
deleteReviewWrite(c) ==
    /\ calls[c].op = "deleteReview"
    /\ LET call == calls[c]
           updatedReviews == SelectSeq(call.product.reviews,
                                       LAMBDA r : r.id # call.reviewId)
           newRating == deleteReviewRating(call.product, updatedReviews)
       IN  IF Exists(products, call.productId)
           THEN /\ products' = [products EXCEPT ![call.productId] =
                                   Merge(@, [reviews |-> updatedReviews,
                                             rating |-> newRating])]
                /\ last' = [op |-> "deleteReview",
                            arg |-> <<call.productId, call.reviewId>>, ret |-> "ok"]
           ELSE /\ products' = products
                /\ last' = [op |-> "deleteReview",
                            arg |-> <<call.productId, call.reviewId>>,
                            ret |-> "Error: not-found"]
    /\ calls' = [calls EXCEPT ![c] = Idle]
    /\ UNCHANGED <<cart, isCartOpen, user, localUser, payment, checkouts, orders,
                   settingsDoc, settings, now,
                   users, accounts, pending, views>>

ReviewSeqNext ==
    \/ \E form \in ProductForms : addProduct(form)
    \/ /\ NoCallRunning
       /\ \E c \in Clients, p \in ProductDocIds, r \in Ratings :
             addReviewRead(c, p, "u1", r)
    \/ \E c \in Clients : addReviewWrite(c)
    \/ /\ NoCallRunning
       /\ \E c \in Clients, p \in ProductDocIds, r \in ReviewIds : deleteReviewRead(c, p, r)
    \/ \E c \in Clients : deleteReviewWrite(c)

\* every call of the data service returns before the next one is made
ReviewSeqSpec == OrderInit /\ [][ReviewSeqNext]_vars

----------------------------------------------------------------------------
(* Data service (FirebaseService): the settings document *)

\* getSettings: the hard-coded defaults
defaultSettings ==
    [shopName |-> "TechMart LK",
     address |-> "No. 123, High Level Road, Colombo 06",
     phone |-> "+94 11 234 5678",
     whatsapp |-> "94771234567",
     homeBannerUrl |-> "",
     bannerImages |-> Some(<<>>)]

\* what the admin's settings form saves
SavedSettings ==
    { [defaultSettings EXCEPT !.shopName = "TechMart Kandy"],
      [defaultSettings EXCEPT !.phone = "+94 81 000 0000", !.address = "Kandy"],
      [defaultSettings EXCEPT !.homeBannerUrl = "banner.png"] }

getSettingsRead_IgnoreStored(c) ==
    /\ calls[c] = Idle
    /\ calls' = [calls EXCEPT ![c] = [op |-> "getSettings"]]
    /\ settings' = [settings EXCEPT ![c] = loadingSettings]
    /\ last' = [op |-> "getDoc", arg |-> <<"main">>]
    /\ UNCHANGED <<cart, isCartOpen, user, localUser, payment, checkouts, orders,
                   products, settingsDoc, now,
                   users, accounts, pending, views>>

\* A page load mounts ShopProvider, which calls getSettings.  getSettings up
\* to the end of getDoc: a stored document is returned (and shown).
getSettingsRead(c) ==
    /\ calls[c] = Idle
    /\ IF settingsDoc # None
       THEN /\ calls' = calls
            /\ settings' = [settings EXCEPT ![c] = settingsDoc[1]]
            /\ last' = [op |-> "getSettings", arg |-> <<c>>, ret |-> settingsDoc[1],
                        wrote |-> FALSE]
       ELSE /\ calls' = [calls EXCEPT ![c] = [op |-> "getSettings"]]
            /\ settings' = [settings EXCEPT ![c] = loadingSettings]
            /\ last' = [op |-> "getDoc", arg |-> <<"main">>]
    /\ UNCHANGED <<cart, isCartOpen, user, localUser, payment, checkouts, orders,
                   products, settingsDoc, now,
                   users, accounts, pending, views>>

\* getSettings on an absent document: setDoc of the defaults, which it returns
getSettingsWrite(c) ==
    /\ calls[c].op = "getSettings"
    /\ settingsDoc' = Some(defaultSettings)
    /\ settings' = [settings EXCEPT ![c] = defaultSettings]
    /\ last' = [op |-> "getSettings", arg |-> <<c>>, ret |-> defaultSettings,
                wrote |-> TRUE]
    /\ calls' = [calls EXCEPT ![c] = Idle]
    /\ UNCHANGED <<cart, isCartOpen, user, localUser, payment, checkouts, orders,
                   products, now,
                   users, accounts, pending, views>>

\* updateShopSettings: updateSettings (setDoc of the form), then setSettings
updateShopSettings(c, newSettings) ==
    /\ calls[c] = Idle
    /\ settingsDoc' = Some(newSettings)
    /\ settings' = [settings EXCEPT ![c] = newSettings]
    /\ last' = [op |-> "updateSettings", arg |-> <<c, newSettings>>, ret |-> newSettings]
    /\ UNCHANGED <<cart, isCartOpen, user, localUser, payment, checkouts, orders,
                   products, calls, now,
                   users, accounts, pending, views>>

SettingsSeqNext ==
    \/ /\ NoCallRunning
       /\ \E c \in Clients : getSettingsRead(c)
    \/ \E c \in Clients : getSettingsWrite(c)
    \/ /\ NoCallRunning
       /\ \E c \in Clients, st \in SavedSettings : updateShopSettings(c, st)

\* every call of the data service returns before the next one is made
SettingsSeqSpec == Init /\ [][SettingsSeqNext]_vars

----------------------------------------------------------------------------
(* Checkout page *)

PaymentMethods == {"COD", "Card"}

totalDeliveryFee_PerLine(c) ==
    SumSeq([i \in 1..Len(c) |-> OrElse(c[i].deliveryFee, 0)])

\* cart.reduce((sum, item) => sum + ((item.deliveryFee || 0) * item.quantity), 0)
totalDeliveryFee(c) ==
    SumSeq([i \in 1..Len(c) |-> OrElse(c[i].deliveryFee, 0) * c[i].quantity])

grandTotal(c) == cartTotal(c) + totalDeliveryFee(c)

\* the ids addDoc gives to the orders placed from the checkout page
CheckoutOrderIds == OrderIds \cup {"o2"}

\* user.addresses.find(a => a.id === selectedAddressId)
Address(u, addressId) == CHOOSE a \in Range(u.addresses) : a.id = addressId

\* The place-order button (enabled on a non-empty cart with a selected address
\* while no payment is processing) runs handleOrder: cash on delivery calls
\* createOrder at once, a card payment first starts the simulated gateway.
\* Either way the continuation keeps the cart and the totals of this render.
handleOrder(method, addressId) ==
    /\ cart # <<>>
    /\ ~payment.isProcessing
    /\ user # NoUser
    /\ \E a \in Range(user.addresses) : a.id = addressId
    /\ Len(checkouts) + Cardinality(DOMAIN orders) < Cardinality(CheckoutOrderIds)
    /\ IF method = "Card"
       THEN /\ payment' = [isProcessing |-> TRUE, status |-> "processing"]
            /\ checkouts' = Append(checkouts,
                   [stage |-> "processing", userId |-> user.id, items |-> cart,
                    total |-> grandTotal(cart), deliveryFee |-> totalDeliveryFee(cart),
                    address |-> Address(user, addressId), method |-> method])
       ELSE /\ payment' = payment
            /\ checkouts' = Append(checkouts,
                   [stage |-> "addDoc",
                    data |-> newOrderData(user.id, cart, grandTotal(cart),
                                          Address(user, addressId), method,
                                          totalDeliveryFee(cart), now)])
    /\ last' = [op |-> "handleOrder", arg |-> <<method, addressId>>]
    /\ UNCHANGED <<cart, isCartOpen, user, localUser, orders, products, settingsDoc,
                   settings, calls, now,
                   users, accounts, pending, views>>

\* the checkout button of the cart drawer: handleCheckoutClick
handleCheckoutClick ==
    /\ isCartOpen
    /\ IF user # NoUser /\ user.role = "admin"
       THEN /\ last' = [op |-> "handleCheckoutClick", arg |-> <<>>,
                        ret |-> "Admin accounts cannot checkout."]
            /\ UNCHANGED <<isCartOpen, views>>
       ELSE /\ last' = [op |-> "handleCheckoutClick", arg |-> <<>>, ret |-> "/checkout"]
            /\ isCartOpen' = FALSE
            /\ checkoutOpen' = (cart # <<>>)
            /\ dash' = closedDashboard
            /\ profilePage' = closedProfile
            /\ editor' = closedEditor
            /\ subs' = ViewsCleanedUp(subs)
            /\ media' = Detached(media)
            /\ UNCHANGED <<streams, chats>>
    /\ UNCHANGED <<cart, user, localUser, payment, checkouts, orders, products,
                   settingsDoc, settings, calls, now, users, accounts, pending>>

\* the address #/checkout is entered: the route has no guard, and
\* CheckoutPage itself leaves for '/' only on an empty cart
openCheckout ==
    /\ ~checkoutOpen
    /\ checkoutOpen' = (cart # <<>>)
    /\ dash' = closedDashboard
    /\ profilePage' = closedProfile
    /\ editor' = closedEditor
    /\ subs' = ViewsCleanedUp(subs)
    /\ media' = Detached(media)
    /\ last' = [op |-> "openCheckout", arg |-> <<>>]
    /\ UNCHANGED <<cart, isCartOpen, user, localUser, payment, checkouts, orders,
                   products, settingsDoc, settings, calls, now, users, accounts,
                   pending, streams, chats>>

paymentSucceeded_StaysProcessing(i) ==
    /\ i \in 1..Len(checkouts)
    /\ checkouts[i].stage = "processing"
    /\ checkouts' = [checkouts EXCEPT ![i].stage = "success"]
    /\ last' = [op |-> "setPaymentStatus", arg |-> <<"success">>]
    /\ UNCHANGED <<cart, isCartOpen, user, localUser, payment, orders, products,
                   settingsDoc, settings, calls, now, users, accounts, pending, views>>

\* first timer of the simulated gateway: setPaymentStatus('success')
paymentSucceeded(i) ==
    /\ i \in 1..Len(checkouts)
    /\ checkouts[i].stage = "processing"
    /\ payment' = [payment EXCEPT !.status = "success"]
    /\ checkouts' = [checkouts EXCEPT ![i].stage = "success"]
    /\ last' = [op |-> "setPaymentStatus", arg |-> <<"success">>]
    /\ UNCHANGED <<cart, isCartOpen, user, localUser, orders, products, settingsDoc,
                   settings, calls, now,
                   users, accounts, pending, views>>

\* second timer: createOrderInDb calls createOrder with what handleOrder kept
createOrderInDb(i) ==
    /\ i \in 1..Len(checkouts)
    /\ checkouts[i].stage = "success"
    /\ LET k == checkouts[i] IN
       checkouts' = [checkouts EXCEPT ![i] =
           [stage |-> "addDoc",
            data |-> newOrderData(k.userId, k.items, k.total, k.address, k.method,
                                  k.deliveryFee, now)]]
    /\ last' = [op |-> "createOrderInDb", arg |-> <<"Card">>]
    /\ UNCHANGED <<cart, isCartOpen, user, localUser, payment, orders, products,
                   settingsDoc, settings, calls, now,
                   users, accounts, pending, views>>

\* addDoc lands and createOrder returns: clearCart, setIsProcessing(false),
\* setPaymentStatus('idle'), and navigate('/profile') leaves the checkout page
orderPlaced(i) ==
    /\ i \in 1..Len(checkouts)
    /\ checkouts[i].stage = "addDoc"
    /\ \E id \in CheckoutOrderIds \ DOMAIN orders :
         /\ orders' = orders @@ (id :> checkouts[i].data)
         /\ last' = [op |-> "createOrder", arg |-> <<checkouts[i].data.userId>>,
                     ret |-> <<id, checkouts[i].data>>]
    /\ cart' = <<>>
    /\ payment' = [isProcessing |-> FALSE, status |-> "idle"]
    /\ checkouts' = SubSeq(checkouts, 1, i - 1) \o SubSeq(checkouts, i + 1, Len(checkouts))
    /\ UNCHANGED <<isCartOpen, user, localUser, products, settingsDoc, settings,
                   calls, now,
                   users, accounts, pending,
                   dash, profilePage, subs, streams, media, chats, editor>>
    /\ checkoutOpen' = FALSE

CheckoutNext ==
    \/ \E p \in Catalog : addToCart(p)
    \/ \E id \in ProductIds : removeFromCart(id)
    \/ \E id \in ProductIds, qty \in 0..MaxQty : updateQuantity(id, qty)
    \/ /\ checkouts = <<>> /\ orders = <<>>
       /\ \E m \in PaymentMethods, a \in {"a1"} : handleOrder(m, a)
    \/ \E i \in 1..Len(checkouts) : paymentSucceeded(i)
    \/ \E i \in 1..Len(checkouts) : createOrderInDb(i)
    \/ \E i \in 1..Len(checkouts) : orderPlaced(i)

\* one order is placed from the page, by one click of the place-order button
CheckoutSpec == OrderInit /\ [][CheckoutNext]_vars

----------------------------------------------------------------------------
(* Session container (AuthProvider) and the auth and address-book methods   *)
(* of the data service                                                      *)

\* what the login and register forms submit
Emails == DOMAIN FirstAccounts \cup {"nuwan@x.lk"}

\* what is typed into the login form: every email with its password, and one
\* email with no password and with a wrong one
LoginAttempts ==
    {<<e, "right">> : e \in Emails} \cup {<<"amal@x.lk", "">>, <<"amal@x.lk", "wrong">>}

\* what is typed into the register form: a new email with and without a
\* password, and an email that has an account
RegisterAttempts ==
    {<<"nuwan@x.lk", "right">>, <<"nuwan@x.lk", "">>, <<"amal@x.lk", "right">>}

\* uids Firebase Auth hands to new accounts
NewUids == {"u6"}

\* ids saveAddress generates
NewAddressIds == {"a2"}

\* the profiles whose address book is edited
AddressBookUsers == {"u1"}

MaxPending == 1

\* { ...doc.data(), id: doc.id }
ProfileUser(id, data) ==
    [id |-> id, email |-> data.email, role |-> data.role,
     wishlist |-> data.wishlist, addresses |-> data.addresses]

RemovePending(i) == SubSeq(pending, 1, i - 1) \o SubSeq(pending, i + 1, Len(pending))

ResolveProfile_EmailOnly(coll, email, uid) ==
    {ProfileUser(id, coll[id]) : id \in {d \in DOMAIN coll : coll[d].email = email}}

\* login, step 2: the profiles the lookup can give (none: profile not found).
\* The email query comes first; only when it is empty, the document whose id
\* is the auth uid.
ResolveProfile(coll, email, uid) ==
    LET byEmail == {d \in DOMAIN coll : coll[d].email = email}
    IN  IF byEmail # {} THEN {ProfileUser(id, coll[id]) : id \in byEmail}
        ELSE IF uid \in DOMAIN coll THEN {ProfileUser(uid, coll[uid])}
        ELSE {}

\* AuthProvider.login up to the end of signInWithEmailAndPassword
loginSignIn(email, password) ==
    /\ Len(pending) < MaxPending
    /\ IF password = ""
       THEN /\ last' = [op |-> "login", arg |-> <<email, password>>,
                        ok |-> FALSE,
                        ret |-> NoUser, error |-> "Error: Password is required"]
            /\ pending' = pending
       ELSE IF email \notin DOMAIN accounts \/ password # "right"
       THEN /\ last' = [op |-> "login", arg |-> <<email, password>>,
                        ok |-> FALSE,
                        ret |-> NoUser, error |-> "Error: auth/invalid-credential"]
            /\ pending' = pending
       ELSE /\ last' = [op |-> "signIn", arg |-> <<email, password>>]
            /\ pending' = Append(pending, [op |-> "login", email |-> email,
                                           uid |-> accounts[email]])
    /\ UNCHANGED <<cart, isCartOpen, user, localUser, payment, checkouts, orders,
                   products, settingsDoc, settings, calls, now, users, accounts, views>>

\* login from the profile lookup to setUser
loginResolve(i) ==
    /\ i \in 1..Len(pending)
    /\ pending[i].op = "login"
    /\ LET found == ResolveProfile(users, pending[i].email, pending[i].uid) IN
       IF found = {}
       THEN /\ last' = [op |-> "login", arg |-> <<pending[i].email, "right">>,
                        ok |-> FALSE, ret |-> NoUser,
                        error |-> "Error: User profile not found in database."]
            /\ UNCHANGED <<user, localUser>>
       ELSE \E profile \in found :
               /\ localUser' = profile
               /\ user' = profile
               /\ last' = [op |-> "login", arg |-> <<pending[i].email, "right">>,
                           ok |-> TRUE, ret |-> profile, error |-> ""]
    /\ pending' = RemovePending(i)
    /\ UNCHANGED <<cart, isCartOpen, payment, checkouts, orders, products,
                   settingsDoc, settings, calls, now, users, accounts,
                   checkoutOpen>>
    /\ userChanged(user')

NewUser_FirstAddress(uid, email) ==
    [id |-> uid, email |-> email, role |-> "customer",
     addresses |-> <<HomeAddress>>, wishlist |-> <<>>]

\* register: the profile of a new account
NewUser(uid, email) ==
    [id |-> uid, email |-> email, role |-> "customer",
     addresses |-> <<>>, wishlist |-> <<>>]

\* AuthProvider.register up to the end of createUserWithEmailAndPassword
registerSignUp(email, password) ==
    /\ Len(pending) < MaxPending
    /\ IF password = ""
       THEN /\ last' = [op |-> "register", arg |-> <<email, password>>,
                        ok |-> FALSE,
                        ret |-> NoUser, error |-> "Error: Password is required"]
            /\ UNCHANGED <<accounts, pending>>
       ELSE IF email \in DOMAIN accounts
       THEN /\ last' = [op |-> "register", arg |-> <<email, password>>,
                        ok |-> FALSE,
                        ret |-> NoUser, error |-> "Error: auth/email-already-in-use"]
            /\ UNCHANGED <<accounts, pending>>
       ELSE \E uid \in NewUids \ {accounts[e] : e \in DOMAIN accounts} :
               /\ accounts' = accounts @@ (email :> uid)
               /\ pending' = Append(pending, [op |-> "register", email |-> email,
                                              uid |-> uid])
               /\ last' = [op |-> "signUp", arg |-> <<email, password>>]
    /\ UNCHANGED <<cart, isCartOpen, user, localUser, payment, checkouts, orders,
                   products, settingsDoc, settings, calls, now, users, views>>

\* register from setDoc of the new profile to setUser
registerResolve(i) ==
    /\ i \in 1..Len(pending)
    /\ pending[i].op = "register"
    /\ LET newUser == NewUser(pending[i].uid, pending[i].email)
       IN  /\ users' = [id \in DOMAIN users \cup {newUser.id} |->
                          IF id = newUser.id THEN ProfileDoc(newUser) ELSE users[id]]
           /\ localUser' = newUser
           /\ user' = newUser
           /\ last' = [op |-> "register", arg |-> <<pending[i].email, "right">>,
                       ok |-> TRUE, ret |-> newUser, error |-> ""]
    /\ pending' = RemovePending(i)
    /\ UNCHANGED <<cart, isCartOpen, payment, checkouts, orders, products,
                   settingsDoc, settings, calls, now, accounts,
                   checkoutOpen>>
    /\ userChanged(user')

\* AuthProvider.logout (the button is shown to a signed-in user): db.logout()
\* is started and not awaited, setUser(null)
logout ==
    /\ user # NoUser
    /\ Len(pending) < MaxPending
    /\ user' = NoUser
    /\ pending' = Append(pending, [op |-> "logout"])
    /\ last' = [op |-> "logout", arg |-> <<>>]
    /\ UNCHANGED <<cart, isCartOpen, localUser, payment, checkouts, orders, products,
                   settingsDoc, settings, calls, now, users, accounts,
                   checkoutOpen>>
    /\ userChanged(user')

logoutResolve_KeepsProfile(i) ==
    /\ i \in 1..Len(pending)
    /\ pending[i].op = "logout"
    /\ pending' = RemovePending(i)
    /\ last' = [op |-> "removeItem", arg |-> <<>>]
    /\ UNCHANGED <<cart, isCartOpen, user, localUser, payment, checkouts, orders,
                   products, settingsDoc, settings, calls, now, users, accounts, views>>

\* db.logout after signOut has resolved: localStorage.removeItem
logoutResolve(i) ==
    /\ i \in 1..Len(pending)
    /\ pending[i].op = "logout"
    /\ localUser' = NoUser
    /\ pending' = RemovePending(i)
    /\ last' = [op |-> "removeItem", arg |-> <<>>]
    /\ UNCHANGED <<cart, isCartOpen, user, payment, checkouts, orders, products,
                   settingsDoc, settings, calls, now, users, accounts, views>>

\* what the address form submits, under the id saveAddress generates
NewAddress(id) == [id |-> id, city |-> "Kandy", phone |-> "0710000000"]

\* AuthProvider.addAddress: saveAddress up to the start of updateDoc, with the
\* user of this render
addAddress(address) ==
    /\ user # NoUser
    /\ Len(pending) < MaxPending
    /\ pending' = Append(pending, [op |-> "saveAddress", user |-> user,
                                   addresses |-> Append(user.addresses, address)])
    /\ last' = [op |-> "addAddress", arg |-> <<address.id>>]
    /\ UNCHANGED <<cart, isCartOpen, user, localUser, payment, checkouts, orders,
                   products, settingsDoc, settings, calls, now, users, accounts, views>>

\* AuthProvider.removeAddress: deleteAddress up to the start of updateDoc
removeAddress(id) ==
    /\ user # NoUser
    /\ Len(pending) < MaxPending
    /\ pending' = Append(pending, [op |-> "deleteAddress", user |-> user,
                                   addresses |-> SelectSeq(user.addresses,
                                                           LAMBDA a : a.id # id)])
    /\ last' = [op |-> "removeAddress", arg |-> <<id>>]
    /\ UNCHANGED <<cart, isCartOpen, user, localUser, payment, checkouts, orders,
                   products, settingsDoc, settings, calls, now, users, accounts, views>>

\* updateDoc of the addresses field lands (it rejects on an absent document);
\* then localStorage.setItem and setUser of the updated user
AddressesWritten(i, opName) ==
    /\ i \in 1..Len(pending)
    /\ pending[i].op = opName
    /\ LET k == pending[i]
           updatedUser == [k.user EXCEPT !.addresses = k.addresses]
       IN  IF Exists(users, k.user.id)
           THEN /\ users' = [users EXCEPT ![k.user.id].addresses = k.addresses]
                /\ localUser' = updatedUser
                /\ user' = updatedUser
                /\ last' = [op |-> opName, arg |-> <<k.user.id>>, ok |-> TRUE,
                            ret |-> updatedUser, error |-> ""]
           ELSE /\ UNCHANGED <<users, localUser, user>>
                /\ last' = [op |-> opName, arg |-> <<k.user.id>>, ok |-> FALSE,
                            ret |-> NoUser, error |-> "Error: not-found"]
    /\ pending' = RemovePending(i)
    /\ UNCHANGED <<cart, isCartOpen, payment, checkouts, orders, products,
                   settingsDoc, settings, calls, now, accounts,
                   checkoutOpen>>
    /\ userChanged(user')

saveAddressWrite(i) == AddressesWritten(i, "saveAddress")

deleteAddressWrite(i) == AddressesWritten(i, "deleteAddress")

\* The page is loaded again (none of its calls is in flight): the providers
\* start from their initial state, the user from getCurrentUser()
boot ==
    /\ pending = <<>>
    /\ user' = localUser
    /\ cart' = <<>>
    /\ isCartOpen' = FALSE
    /\ last' = [op |-> "getCurrentUser", arg |-> <<>>, ret |-> localUser]
    /\ dash' = closedDashboard
    /\ profilePage' = closedProfile
    /\ editor' = closedEditor
    /\ subs' = {}
    /\ streams' = {}
    /\ media' = <<>>
    /\ checkoutOpen' = FALSE
    /\ UNCHANGED <<localUser, payment, checkouts, orders, products, settingsDoc,
                   settings, calls, now, users, accounts, pending, chats>>

AuthNext ==
    \/ \E a \in LoginAttempts : loginSignIn(a[1], a[2])
    \/ \E i \in 1..Len(pending) : loginResolve(i)
    \/ \E a \in RegisterAttempts : registerSignUp(a[1], a[2])
    \/ \E i \in 1..Len(pending) : registerResolve(i)
    \/ logout
    \/ \E i \in 1..Len(pending) : logoutResolve(i)
    \/ toggleWishlist("p1")
    \/ /\ user.id \in AddressBookUsers
       /\ \E id \in NewAddressIds \ {a.id : a \in Range(user.addresses)} :
             addAddress(NewAddress(id))
    \/ /\ user.id \in AddressBookUsers
       /\ \E a \in Range(user.addresses) : removeAddress(a.id)
    \/ \E i \in 1..Len(pending) : saveAddressWrite(i)
    \/ \E i \in 1..Len(pending) : deleteAddressWrite(i)
    \/ boot

AuthSpec == Init /\ [][AuthNext]_vars

\* a promise that has resolved runs its continuation: the sign-out started by
\* logout reaches its removeItem
AuthLiveSpec ==
    AuthSpec /\ WF_vars(\E i \in 1..Len(pending) : logoutResolve(i))

----------------------------------------------------------------------------
(* The data service as a whole: orders, products, reviews and the address   *)
(* book against one store.  One client's calls, each of which the writes of *)
(* the admin's product form, of the checkout and of the address book may    *)
(* come between.                                                            *)

StoreClients == {"c1"}

\* ten units of p1, more than any product form stocks
BulkItems == <<[id |-> "p1", price |-> 1000, offerPrice |-> None,
                deliveryFee |-> Some(100), quantity |-> 10]>>

\* fields that a call of updateProduct replaces
ProductUpdates == {[price |-> 900, stock |-> 0]}

StoreNext ==
    \/ \E items \in {PlacedItems, BulkItems} :
          createOrder("u1", items, grandTotal(items), HomeAddress, "COD",
                      totalDeliveryFee(items))
    \/ \E c \in StoreClients, o \in OrderIds : updateOrderStatusRead(c, o, "Shipped", "delayed")
    \/ \E c \in StoreClients : updateOrderStatusWrite(c)
    \/ \E c \in StoreClients, o \in OrderIds : cancelOrderRead(c, o)
    \/ \E c \in StoreClients : cancelOrderFinish(c)
    \/ \E form \in ProductForms : addProduct(form)
    \/ \E id \in ProductDocIds, updates \in ProductUpdates : updateProduct(id, updates)
    \/ \E id \in ProductDocIds : deleteProduct(id)
    \/ \E c \in StoreClients, p \in ProductDocIds :
          /\ Exists(products, p) => products[p].reviews = <<>>
          /\ addReviewRead(c, p, "u1", 4)
    \/ \E c \in StoreClients : addReviewWrite(c)
    \/ \E c \in StoreClients, p \in ProductDocIds, r \in ReviewIds : deleteReviewRead(c, p, r)
    \/ \E c \in StoreClients : deleteReviewWrite(c)
    \/ /\ pending = <<>>
       /\ \E id \in NewAddressIds \ {a.id : a \in Range(user.addresses)} :
             addAddress(NewAddress(id))
    \/ /\ pending = <<>>
       /\ \E a \in Range(user.addresses) : removeAddress(a.id)
    \/ \E i \in 1..Len(pending) : saveAddressWrite(i)
    \/ \E i \in 1..Len(pending) : deleteAddressWrite(i)

StoreSpec == OrderInit /\ [][StoreNext]_vars

----------------------------------------------------------------------------
(* Product details page: the review form and the delete-review button       *)

\* this page's own calls of the data service
Page == "c1"

\* The review form is rendered when user is set; the submit button is
\* disabled while a submission is running.  handleSubmitReview up to the end
\* of addReview's getDoc.
handleSubmitReview(productId, rating) ==
    /\ Exists(products, productId)
    /\ user # NoUser
    /\ addReviewRead(Page, productId, user.id, rating)

\* The delete button of a review is rendered when user?.role === 'admin';
\* handleDeleteReview (confirmed) up to the end of deleteReview's getDoc.
handleDeleteReview(productId, reviewId) ==
    /\ Exists(products, productId)
    /\ \E r \in Range(products[productId].reviews) : r.id = reviewId
    /\ user.role = "admin"
    /\ deleteReviewRead(Page, productId, reviewId)

ReviewPageNext ==
    \/ \E form \in ProductForms : addProduct(form)
    \/ \E p \in ProductDocIds : handleSubmitReview(p, 4)
    \/ addReviewWrite(Page)
    \/ \E p \in ProductDocIds, r \in ReviewIds : handleDeleteReview(p, r)
    \/ deleteReviewWrite(Page)
    \/ \E a \in {<<"amal@x.lk", "right">>, <<"admin@x.lk", "right">>} :
          loginSignIn(a[1], a[2])
    \/ \E i \in 1..Len(pending) : loginResolve(i)
    \/ logout
    \/ \E i \in 1..Len(pending) : logoutResolve(i)

ReviewPageSpec == Init /\ [][ReviewPageNext]_vars

----------------------------------------------------------------------------
(* Reviewers in different browsers: addReview calls overlap *)

ReviewRaceNext ==
    \/ \E form \in ProductForms : addProduct(form)
    \/ \E c \in Clients, p \in ProductDocIds, r \in {2, 4} :
          /\ Exists(products, p) => Len(products[p].reviews) < Cardinality(Clients)
          /\ addReviewRead(c, p, "u1", r)
    \/ \E c \in Clients : addReviewWrite(c)

ReviewRaceSpec == OrderInit /\ [][ReviewRaceNext]_vars

\* pages load (getSettings) while an admin saves the settings form: the
\* calls of different clients may overlap
SettingsRaceNext ==
    \/ \E c \in Clients : getSettingsRead(c)
    \/ \E c \in Clients : getSettingsWrite(c)
    \/ \E c \in Clients, st \in SavedSettings : updateShopSettings(c, st)

SettingsRaceSpec == Init /\ [][SettingsRaceNext]_vars

----------------------------------------------------------------------------
\* The product editor of the dashboard

\* what the admin types into the edit form
FormEdits == {[price |-> 900], [stock |-> 0]}

\* fetchData: getProducts returns the stored products, setProducts(p)
fetchData ==
    /\ dash.mounted
    /\ editor' = [editor EXCEPT !.products = products]
    /\ last' = [op |-> "fetchData", arg |-> <<>>]
    /\ UNCHANGED <<cart, isCartOpen, user, localUser, payment, checkouts, orders,
                   products, settingsDoc, settings, calls, now, users, accounts,
                   pending, dash, profilePage, subs, streams, media, chats,
                   checkoutOpen>>

\* the edit button of a listed product: setIsEditing(p.id), setFormData(p)
editProduct(id) ==
    /\ dash.mounted
    /\ id \in DOMAIN editor.products
    /\ editor' = [editor EXCEPT !.isEditing = Some(id),
                                !.formData = Some(editor.products[id])]
    /\ last' = [op |-> "editProduct", arg |-> <<id>>]
    /\ UNCHANGED <<cart, isCartOpen, user, localUser, payment, checkouts, orders,
                   products, settingsDoc, settings, calls, now, users, accounts,
                   pending, dash, profilePage, subs, streams, media, chats,
                   checkoutOpen>>

\* a field of the form is changed: setFormData({ ...formData, field: value })
changeForm(edit) ==
    /\ dash.mounted
    /\ editor.formData # None
    /\ editor' = [editor EXCEPT !.formData = Some(Merge(editor.formData[1], edit))]
    /\ last' = [op |-> "changeForm", arg |-> <<edit>>]
    /\ UNCHANGED <<cart, isCartOpen, user, localUser, payment, checkouts, orders,
                   products, settingsDoc, settings, calls, now, users, accounts,
                   pending, dash, profilePage, subs, streams, media, chats,
                   checkoutOpen>>

\* handleSaveProduct on an existing product: updateProduct(isEditing,
\* { ...formData, images, imageUrl }), then the form is reset and the
\* products are fetched again; updateDoc rejects on an absent document and
\* the handler ends there
handleSaveProduct ==
    /\ dash.mounted
    /\ editor.isEditing # None /\ editor.formData # None
    /\ LET id == editor.isEditing[1]
           productData == editor.formData[1]
       IN  IF Exists(products, id)
           THEN /\ products' = [products EXCEPT ![id] = Merge(@, productData)]
                /\ editor' = [products |-> products', isEditing |-> None,
                              formData |-> None]
                /\ last' = [op |-> "handleSaveProduct", arg |-> <<id, productData>>,
                            ret |-> "ok"]
           ELSE /\ UNCHANGED <<products, editor>>
                /\ last' = [op |-> "handleSaveProduct", arg |-> <<id, productData>>,
                            ret |-> "Error: not-found"]
    /\ UNCHANGED <<cart, isCartOpen, user, localUser, payment, checkouts, orders,
                   settingsDoc, settings, calls, now, users, accounts,
                   pending, dash, profilePage, subs, streams, media, chats,
                   checkoutOpen>>

\* an admin edits products on the dashboard while a customer reviews them
ProductEditNext ==
    \/ \E form \in ProductForms : addProduct(form)
    \/ openDashboard
    \/ fetchData
    \/ \E id \in ProductDocIds : editProduct(id)
    \/ \E edit \in FormEdits : changeForm(edit)
    \/ handleSaveProduct
    \/ \E p \in ProductDocIds :
          /\ Exists(products, p) => products[p].reviews = <<>>
          /\ addReviewRead("c2", p, "u1", 4)
    \/ addReviewWrite("c2")
    \/ \E p \in ProductDocIds, r \in ReviewIds : deleteReviewRead("c2", p, r)
    \/ deleteReviewWrite("c2")

ProductEditSpec == AdminInit /\ [][ProductEditNext]_vars

----------------------------------------------------------------------------
\* The chat pages of one browser session, with customers writing to the shop

ChatNext ==
    \/ openDashboard
    \/ closeDashboard
    \/ \E tab \in DashTabs : setActiveTab(tab)
    \/ \E u \in ChatUsers : setActiveChatUser(u)
    \/ openProfile
    \/ closeProfile
    \/ \E tab \in ProfileTabs : setProfileTab(tab)
    \/ \E u \in ChatUsers :
          /\ \A id \in DOMAIN chats : chats[id].userId # u
          /\ sendMessage(u, "hi", "user")
    \/ toggleWishlist("p1")
    \/ logout
    \/ \E i \in 1..Len(pending) : logoutResolve(i)

\* each customer opens a conversation with one message
ChatSpec == Init /\ [][ChatNext]_vars

\* The conversation list: messages arrive from customers and the admin over
\* time, while the dashboard of this session shows the list or not
ChatListNext ==
    \/ \E u \in ChatUsers, sender \in {"user", "admin"} : sendMessage(u, "hi", sender)
    \/ Tick
    \/ getAllChats
    \/ openDashboard
    \/ \E tab \in {"analytics", "support"} : setActiveTab(tab)

ChatListSpec == AdminInit /\ [][ChatListNext]_vars

\* The QR scanner of the orders tab, in the session of an admin
ScannerNext ==
    \/ openDashboard
    \/ closeDashboard
    \/ \E tab \in {"analytics", "orders"} : setActiveTab(tab)
    \/ startScanner
    \/ \E i \in 1..Len(media) : getUserMediaResolved(i)
    \/ \E i \in 1..Len(media) : getUserMediaRejected(i)
    \/ stopScanner
    \/ \E i \in 1..Len(media), code \in BOOLEAN : tick(i, code)

ScannerSpec == AdminInit /\ [][ScannerNext]_vars

\* The place-order button may be pressed whenever it is enabled, also while
\* an order write of the page is still in flight; the cart is only filled
CheckoutRaceNext ==
    \/ \E p \in {q \in Catalog : q.id = "p1"} : addToCart(p)
    \/ \E m \in PaymentMethods, a \in {"a1"} : handleOrder(m, a)
    \/ \E i \in 1..Len(checkouts) : paymentSucceeded(i)
    \/ \E i \in 1..Len(checkouts) : createOrderInDb(i)
    \/ \E i \in 1..Len(checkouts) : orderPlaced(i)

CheckoutRaceSpec == OrderInit /\ [][CheckoutRaceNext]_vars

\* One page session in which a customer and an admin sign in and out, the
\* cart is filled, and the checkout page is reached from the cart drawer or
\* by its address
AdminOrderNext ==
    \/ \E e \in {"amal@x.lk", "admin@x.lk"} : loginSignIn(e, "right")
    \/ \E i \in 1..Len(pending) : loginResolve(i)
    \/ logout
    \/ \E i \in 1..Len(pending) : logoutResolve(i)
    \/ \E p \in {q \in Catalog : q.id = "p1"} : addToCart(p)
    \/ handleCheckoutClick
    \/ openCheckout
    \/ /\ checkoutOpen
       /\ \E id \in NewAddressIds \ {a.id : a \in Range(user.addresses)} :
             addAddress(NewAddress(id))
    \/ \E i \in 1..Len(pending) : saveAddressWrite(i)
    \/ /\ checkoutOpen /\ checkouts = <<>>
       /\ \E m \in PaymentMethods, a \in {"a1"} \cup NewAddressIds : handleOrder(m, a)
    \/ \E i \in 1..Len(checkouts) : paymentSucceeded(i)
    \/ \E i \in 1..Len(checkouts) : createOrderInDb(i)
    \/ \E i \in 1..Len(checkouts) : orderPlaced(i)

AdminOrderSpec == Init /\ [][AdminOrderNext]_vars

----------------------------------------------------------------------------
(* Cart properties *)

LineIds(c) == {c[i].id : i \in 1..Len(c)}

LineOf(c, id) == CHOOSE l \in Range(c) : l.id = id

\* C2 as stated: the cart total is the sum over the remaining lines of
\* (offerPrice ?? price) * quantity, the offer price whenever the line has one.
C2_TotalNullish ==
    cartTotal(cart) =
        SumFn([id \in LineIds(cart) |->
                 (IF LineOf(cart, id).offerPrice # None
                  THEN LineOf(cart, id).offerPrice[1]
                  ELSE LineOf(cart, id).price) * LineOf(cart, id).quantity],
              LineIds(cart))

\* C2 amended: after any sequence of cart operations the cart total is the sum
\* over the remaining lines of the unit price times the quantity, where the unit
\* price is the offer price when the line has a non-zero one and the regular
\* price when the offer price is absent, null or 0.
C2_TotalTruthyOffer ==
    cartTotal(cart) =
        SumFn([id \in LineIds(cart) |->
                 (IF LineOf(cart, id).offerPrice \in {None, Some(0)}
                  THEN LineOf(cart, id).price
                  ELSE LineOf(cart, id).offerPrice[1]) * LineOf(cart, id).quantity],
              LineIds(cart))

\* a line was removed and the remaining line has an offer price of 0 and a
\* quantity above 1
C2_Witness ==
    /\ last.op = "removeFromCart" /\ last.had
    /\ Len(cart) = 1
    /\ cart[1].offerPrice = Some(0) /\ cart[1].quantity > 1

NoDuplicateLines == \A i, j \in 1..Len(cart) : cart[i].id = cart[j].id => i = j

NewLine(p) ==
    [id |-> p.id, price |-> p.price, offerPrice |-> p.offerPrice,
     deliveryFee |-> p.deliveryFee, quantity |-> 1]

AddedTo(before, after, p) ==
    IF p.id \in LineIds(before)
    THEN /\ Len(after) = Len(before)
         /\ \A i \in 1..Len(before) :
              /\ before[i].id = p.id =>
                    after[i] = [before[i] EXCEPT !.quantity = before[i].quantity + 1]
              /\ before[i].id # p.id => after[i] = before[i]
    ELSE after = before \o <<NewLine(p)>>

\* C3 as stated: for every cart and every product, addToCart adds 1 to the
\* quantity of the product's line or appends a new line with quantity 1.
C3_AddAlways ==
    [][\A p \in Catalog :
         (last'.op = "addToCart" /\ last'.arg = <<p>>) => AddedTo(cart, cart', p)]_vars

\* C3 amended: when the current user cached in local storage is not an admin,
\* addToCart(product) adds exactly 1 to the quantity of the line with that
\* product id and leaves the number of lines and every other line unchanged,
\* or, when there is no such line, appends exactly one new line with quantity
\* 1; when that user is an admin addToCart leaves the cart unchanged.  No two
\* cart lines ever share a product id.
C3_AddToCart ==
    /\ [][\A p \in Catalog :
            (last'.op = "addToCart" /\ last'.arg = <<p>>) =>
                IF localUser.role = "admin" THEN cart' = cart
                ELSE AddedTo(cart, cart', p)]_vars
    /\ []NoDuplicateLines

\* addToCart has just merged into an existing line, beside another line
C3_Witness ==
    /\ last.op = "addToCart" /\ last.had
    /\ Len(cart) = 2
    /\ \E l \in Range(cart) : l.id = last.arg[1].id /\ l.quantity = 2

\* C4: every cart line has quantity at least 1, and updateQuantity(id, q) with
\* q <= 0 leaves the cart as removeFromCart(id) would: the lines with another
\* id, in their order.
C4_QuantityAtLeastOne ==
    /\ [](\A i \in 1..Len(cart) : cart[i].quantity >= 1)
    /\ [][(last'.op = "updateQuantity" /\ last'.arg[2] <= 0) =>
            cart' = SelectSeq(cart, LAMBDA l : l.id # last'.arg[1])]_vars

\* updateQuantity(id, 0) has just removed a line from a cart of two
C4_Witness ==
    /\ last.op = "updateQuantity" /\ last.arg[2] = 0 /\ last.had
    /\ Len(cart) = 1
    /\ last.arg[1] \notin LineIds(cart)

----------------------------------------------------------------------------
(* Wishlist properties *)

\* C7: toggleWishlist(productId) removes the id from the wishlist when it is
\* present and adds it when it is absent, leaving the other ids; the wishlist
\* never holds an id twice; toggling the same id twice in a row restores the
\* set of ids there was before the first toggle.
C7_ToggleWishlist ==
    /\ [][(last'.op = "toggleWishlist" /\ user # NoUser) =>
            LET id == last'.arg[1]
                before == Range(user.wishlist)
                after == Range(user'.wishlist)
            IN  /\ id \in before => after = before \ {id}
                /\ id \notin before => after = before \cup {id}
                /\ localUser' = user']_vars
    /\ [](\A i, j \in 1..Len(user.wishlist) :
            user.wishlist[i] = user.wishlist[j] => i = j)
    /\ [][(last.op = "toggleWishlist" /\ last'.op = "toggleWishlist"
           /\ last'.arg = last.arg) =>
            Range(user'.wishlist) = last.prev]_vars

\* the id was toggled while it was in a wishlist of three, and is gone
C7_Witness ==
    /\ last.op = "toggleWishlist"
    /\ last.arg[1] \in last.prev
    /\ Cardinality(last.prev) = 3
    /\ Range(user.wishlist) = last.prev \ {last.arg[1]}
    /\ Len(user.wishlist) = 2

----------------------------------------------------------------------------
(* Order properties *)

IsPrefix(s, t) == Len(s) <= Len(t) /\ SubSeq(t, 1, Len(s)) = s

\* C1: for a stored order, cancelOrder returns true exactly when the stored
\* status is Pending and now - createdAt is at most 24 hours; when it returns
\* true the status is Cancelled and statusHistory has one more entry, a
\* Cancelled one; otherwise (an absent document included) it returns false and
\* the stored orders are unchanged.
C1_CancelOrder ==
    [][last'.op = "cancelOrder" =>
         LET o == last'.arg[1] IN
         IF ~Exists(orders, o) THEN last'.ret = FALSE /\ orders' = orders
         ELSE /\ last'.ret = (/\ orders[o].status = "Pending"
                              /\ now - orders[o].createdAt <= 24 * 60 * 60 * 1000)
              /\ last'.ret = TRUE =>
                   /\ orders'[o].status = "Cancelled"
                   /\ Len(orders'[o].statusHistory) = Len(orders[o].statusHistory) + 1
                   /\ IsPrefix(orders[o].statusHistory, orders'[o].statusHistory)
                   /\ orders'[o].statusHistory[Len(orders'[o].statusHistory)].status
                        = "Cancelled"
                   /\ orders' = [orders EXCEPT ![o] =
                                   [@ EXCEPT !.status = orders'[o].status,
                                             !.statusHistory = orders'[o].statusHistory]]
              /\ last'.ret = FALSE => orders' = orders]_vars

\* cancelOrder returned true exactly 24 hours after the order was created
C1_Witness ==
    /\ last.op = "cancelOrder" /\ last.ret = TRUE
    /\ Exists(orders, last.arg[1])
    /\ now - orders[last.arg[1]].createdAt = 24 * 60 * 60 * 1000
    /\ orders[last.arg[1]].status = "Cancelled"

\* C5: each updateOrderStatus(orderId, status, comment) on an existing order
\* makes the stored statusHistory exactly one entry longer; the new last entry
\* carries the status passed; the earlier entries keep value and position.
C5_UpdateAppends ==
    [][(last'.op = "updateOrderStatus" /\ Exists(orders, last'.arg[1])) =>
         LET o == last'.arg[1]
             before == orders[o].statusHistory
             after == orders'[o].statusHistory
         IN  /\ Len(after) = Len(before) + 1
             /\ after[Len(after)].status = last'.arg[2]
             /\ \A i \in 1..Len(before) : after[i] = before[i]]_vars

\* the second updateOrderStatus on an order has just appended a third entry
C5_Witness ==
    /\ last.op = "updateOrderStatus"
    /\ Exists(orders, last.arg[1])
    /\ LET h == orders[last.arg[1]].statusHistory
       IN  /\ Len(h) = 3
           /\ h[3].status = last.arg[2]
           /\ h[2].status # h[3].status

\* C10: createOrder stores a new order with status Pending and a statusHistory
\* of exactly one entry, of status Pending, and returns that order with its
\* generated id; in every reachable state the first statusHistory entry of
\* every order has status Pending.
C10_CreateOrderPending ==
    /\ [][last'.op = "createOrder" =>
            LET id == last'.ret[1] IN
            /\ ~Exists(orders, id) /\ Exists(orders', id)
            /\ orders'[id].status = "Pending"
            /\ Len(orders'[id].statusHistory) = 1
            /\ orders'[id].statusHistory[1].status = "Pending"
            /\ last'.ret[2] = orders'[id]
            /\ \A o \in DOMAIN orders : orders'[o] = orders[o]]_vars
    /\ [](\A o \in DOMAIN orders :
            /\ orders[o].statusHistory # <<>>
            /\ orders[o].statusHistory[1].status = "Pending")

\* an order with three history entries, the first Pending, whose status is no
\* longer Pending
C10_Witness ==
    \E o \in DOMAIN orders :
        /\ Len(orders[o].statusHistory) >= 3
        /\ orders[o].status # "Pending"
        /\ orders[o].statusHistory[1].status = "Pending"

\* C11: in every stored state of every order, after any sequence and any
\* interleaving of createOrder, updateOrderStatus and cancelOrder calls, the
\* status field equals the status of the last statusHistory entry.
C11_StatusIsLastEntry ==
    \A o \in DOMAIN orders :
        /\ orders[o].statusHistory # <<>>
        /\ orders[o].status =
              orders[o].statusHistory[Len(orders[o].statusHistory)].status

\* a call that had read the order before another call's write has just written
\* over it, changing the status
C11_Witness ==
    /\ last.op \in {"updateOrderStatus", "cancelOrder"}
    /\ last.stale
    /\ Exists(orders, last.arg[1])
    /\ orders[last.arg[1]].status # "Pending"
    /\ \E i \in 1..Len(orders[last.arg[1]].statusHistory) :
          orders[last.arg[1]].statusHistory[i].status # orders[last.arg[1]].status

\* C12 as stated: under any interleaving of updateOrderStatus and cancelOrder
\* calls, the statusHistory stored before a step is a prefix of the
\* statusHistory stored after it: no entry is dropped, replaced or reordered.
C12_AppendOnly ==
    [][\A o \in DOMAIN orders :
         IsPrefix(orders[o].statusHistory, orders'[o].statusHistory)]_vars

----------------------------------------------------------------------------
(* Review properties *)

\* C6: in every stored product state reached through addProduct, addReview and
\* deleteReview, rating is the arithmetic mean of the ratings of the stored
\* reviews, and 0 when there are none.
C6_RatingIsMean ==
    \A p \in DOMAIN products :
        LET rs == products[p].reviews
            total == SumFn([i \in 1..Len(rs) |-> rs[i].rating], 1..Len(rs))
        IN  /\ products[p].rating.den >= 1
            /\ IF rs = <<>> THEN products[p].rating.num = 0
               ELSE products[p].rating.num * Len(rs) = total * products[p].rating.den

\* reviews rated 4 and 2 gave 3, and deleting the 4 has left the 2 with rating 2
C6_Witness ==
    /\ last.op = "deleteReview" /\ last.ret = "ok"
    /\ Exists(products, "p1")
    /\ Len(products["p1"].reviews) = 1
    /\ products["p1"].reviews[1].rating = 2
    /\ products["p1"].reviews[1].id # last.arg[2]
    /\ products["p1"].rating = [num |-> 2, den |-> 1]

----------------------------------------------------------------------------
(* Settings properties *)

\* C8: on an absent settings document getSettings returns the default shop
\* name, address and phone and stores the defaults; the getSettings that
\* follows returns the same values from the stored document, writing nothing;
\* on a stored document getSettings returns it and writes nothing.
C8_GetSettings ==
    /\ [][last'.op = "getSettings" =>
            IF settingsDoc = None
            THEN /\ last'.ret.shopName = "TechMart LK"
                 /\ last'.ret.address = "No. 123, High Level Road, Colombo 06"
                 /\ last'.ret.phone = "+94 11 234 5678"
                 /\ settingsDoc' = <<last'.ret>>
            ELSE /\ last'.ret = settingsDoc[1]
                 /\ ~last'.wrote
                 /\ settingsDoc' = settingsDoc]_vars
    /\ [][(last.op = "getSettings" /\ last'.op = "getSettings") =>
            /\ last'.ret = last.ret
            /\ ~last'.wrote
            /\ settingsDoc' = settingsDoc]_vars

\* getSettings has created the defaults and the next getSettings has returned
\* them from the store
C8_Witness ==
    /\ last.op = "getSettings" /\ ~last.wrote
    /\ last.ret = defaultSettings
    /\ settingsDoc = Some(defaultSettings)

----------------------------------------------------------------------------
(* Checkout properties *)

FeeOf(line) == IF line.deliveryFee = None THEN 0 ELSE line.deliveryFee[1]

UnitOf(line) ==
    IF line.offerPrice \in {None, Some(0)} THEN line.price ELSE line.offerPrice[1]

\* the cart of the spec's scenario
ScenarioCart ==
    << [id |-> "p1", price |-> 1000, offerPrice |-> None,
        deliveryFee |-> Some(100), quantity |-> 2],
       [id |-> "p2", price |-> 1000, offerPrice |-> Some(800),
        deliveryFee |-> Some(0), quantity |-> 1] >>

\* C9: the delivery fee at checkout is the sum over the cart lines of the
\* per-unit delivery fee times the quantity, the grand total is the cart
\* subtotal plus that fee, and the order written stores both (the scenario
\* cart gives 2800 + 200 = 3000).
C9_CheckoutTotals ==
    /\ \A o \in DOMAIN orders :
         LET items == orders[o].items
             fee == SumFn([i \in 1..Len(items) |-> FeeOf(items[i]) * items[i].quantity],
                          1..Len(items))
             subtotal == SumFn([i \in 1..Len(items) |-> UnitOf(items[i]) * items[i].quantity],
                               1..Len(items))
         IN  /\ orders[o].deliveryFee = fee
             /\ orders[o].totalAmount = subtotal + fee
    /\ \A i \in 1..Len(checkouts) :
         checkouts[i].stage # "addDoc" =>
            /\ checkouts[i].deliveryFee = totalDeliveryFee(checkouts[i].items)
            /\ checkouts[i].total = cartTotal(checkouts[i].items) + checkouts[i].deliveryFee
    /\ cartTotal(ScenarioCart) = 2800
    /\ totalDeliveryFee(ScenarioCart) = 200
    /\ grandTotal(ScenarioCart) = 3000

\* the scenario cart was paid by card and its order is stored
C9_Witness ==
    \E o \in DOMAIN orders :
        /\ orders[o].items = ScenarioCart
        /\ orders[o].paymentMethod = "Card"
        /\ orders[o].totalAmount = 3000
        /\ orders[o].deliveryFee = 200
        /\ last.op = "createOrder"

----------------------------------------------------------------------------
(* Session properties *)

\* C16: once the vendor sign-in has succeeded, login resolves the profile
\* whose email matches, or else the profile whose document id is the auth uid,
\* caches it in local storage, returns it and makes it the current user; when
\* neither exists it fails with the profile-not-found error; every failed
\* login leaves the cached profile and the in-memory user unchanged.
C16_Login ==
    [][last'.op = "login" =>
         LET email == last'.arg[1]
             byEmail == {d \in DOMAIN users : users[d].email = email}
             signedIn == Len(pending') < Len(pending)
         IN  /\ ~last'.ok => user' = user /\ localUser' = localUser
             /\ last'.ok =>
                  /\ signedIn
                  /\ IF byEmail # {} THEN last'.ret.id \in byEmail
                     ELSE last'.ret.id = accounts[email] /\ accounts[email] \in DOMAIN users
                  /\ last'.ret = ProfileUser(last'.ret.id, users[last'.ret.id])
                  /\ localUser' = last'.ret
                  /\ user' = last'.ret
             /\ (signedIn /\ byEmail = {} /\ accounts[email] \notin DOMAIN users) =>
                  /\ ~last'.ok
                  /\ last'.error = "Error: User profile not found in database."
             /\ (signedIn /\ ~last'.ok) =>
                  byEmail = {} /\ accounts[email] \notin DOMAIN users]_vars

\* a login has been resolved through the document id: no profile holds the
\* email that was typed
C16_Witness ==
    /\ last.op = "login" /\ last.ok
    /\ last.arg[1] = "bimal@x.lk"
    /\ last.ret.id = "u3" /\ last.ret.email # last.arg[1]
    /\ user = last.ret /\ localUser = last.ret

\* C17: logout makes the in-memory user null at once; the cached profile in
\* local storage is removed eventually; a boot then starts with no session.
C17_LogoutClears ==
    /\ [][last'.op = "logout" => user' = NoUser]_vars
    /\ (last.op = "logout") ~> (localUser = NoUser)
    /\ [][(last'.op = "getCurrentUser" /\ localUser = NoUser) => user' = NoUser]_vars

\* the page was loaded again after a logout had cleared local storage
C17_Witness ==
    /\ last.op = "getCurrentUser"
    /\ last.ret = NoUser
    /\ user = NoUser /\ localUser = NoUser
    /\ Exists(users, "u6")

\* C19: every profile register creates has role customer, no addresses, an
\* empty wishlist and the auth uid as its id; no step of register, login,
\* toggleWishlist, saveAddress or deleteAddress removes a profile document or
\* changes the role stored in one.
C19_RoleNeverChanges ==
    /\ [][(last'.op = "register" /\ last'.ok) =>
            LET u == last'.ret IN
            /\ u.role = "customer" /\ u.addresses = <<>> /\ u.wishlist = <<>>
            /\ u.id = accounts[u.email]
            /\ ~Exists(users, u.id)
            /\ users'[u.id] = ProfileDoc(u)]_vars
    /\ [][\A id \in DOMAIN users :
            id \in DOMAIN users' /\ users'[id].role = users[id].role]_vars

\* a new customer has registered after the address book of another profile
\* was edited, and the admin's profile is still an admin's
C19_Witness ==
    /\ last.op = "register" /\ last.ok
    /\ users[last.ret.id].role = "customer"
    /\ users["u1"].addresses # <<HomeAddress>>
    /\ users["u2"].role = "admin"

----------------------------------------------------------------------------
(* Properties of the data service as a whole *)

StoreUnchanged ==
    /\ orders' = orders /\ products' = products
    /\ users' = users /\ settingsDoc' = settingsDoc

\* C13 as stated: addReview and deleteReview on a product id that has no
\* document, and updateOrderStatus on an order id that has no document, each
\* end in an explicit error and leave the store unchanged.
C13_NotFoundIsAnError ==
    [][/\ (last'.op \in {"addReview", "deleteReview"} /\ ~Exists(products, last'.arg[1])) =>
            /\ last'.ret \in {"Error: Product not found", "Error: not-found"}
            /\ StoreUnchanged
       /\ (last'.op = "updateOrderStatus" /\ ~Exists(orders, last'.arg[1])) =>
            /\ last'.ret \in {"Error: Order not found", "Error: not-found"}
            /\ StoreUnchanged]_vars

\* C14: no step of updateProduct, deleteProduct, addReview, deleteReview,
\* saveAddress, deleteAddress, updateOrderStatus or cancelOrder (nor any other
\* step) removes an order or changes its items or its shippingDetails: they
\* stay as createOrder wrote them.
C14_OrderCopyImmutable ==
    [][/\ \A o \in DOMAIN orders :
            /\ Exists(orders', o)
            /\ orders'[o].items = orders[o].items
            /\ orders'[o].shippingDetails = orders[o].shippingDetails
       /\ last'.op = "createOrder" =>
            \E items \in {PlacedItems, BulkItems} :
                /\ orders'[last'.ret[1]].items = items
                /\ orders'[last'.ret[1]].shippingDetails = HomeAddress]_vars

\* an order whose status has moved on still holds the address the customer
\* has since deleted and the price the product no longer has
C14_Witness ==
    \E o \in DOMAIN orders :
        /\ orders[o].status # "Pending"
        /\ orders[o].shippingDetails = HomeAddress
        /\ HomeAddress \notin Range(users["u1"].addresses)
        /\ Exists(products, "p1")
        /\ products["p1"].reviews # <<>>
        /\ products["p1"].price # orders[o].items[1].price

\* C15: createOrder, whatever the items and quantities, leaves every product
\* document, and so its stock, unchanged.
C15_StockUntouched ==
    [][last'.op = "createOrder" =>
         /\ DOMAIN products' = DOMAIN products
         /\ \A p \in DOMAIN products : products'[p].stock = products[p].stock]_vars

\* an order for ten units of a product that has five in stock was stored
C15_Witness ==
    /\ last.op = "createOrder"
    /\ last.ret[2].items[1].quantity = 10
    /\ Exists(products, last.ret[2].items[1].id)
    /\ products[last.ret[2].items[1].id].stock = 5
    /\ Exists(orders, last.ret[1])

----------------------------------------------------------------------------
(* Properties of the product details page and of overlapping reviewers *)

\* C18 as stated: in any sequence of actions on the product details page a
\* review is only ever submitted by a logged-in user whose role is not admin,
\* and a review is only ever deleted by a user whose role is admin.
C18_ReviewRoles ==
    [][/\ (calls[Page] = Idle /\ calls'[Page].op = "addReview") =>
            user # NoUser /\ user.role # "admin"
       /\ (calls[Page] = Idle /\ calls'[Page].op = "deleteReview") =>
            user.role = "admin"]_vars

\* C20: an addReview that completes stores exactly the reviews it fetched
\* followed by its own, with their mean as rating, whatever was stored since
\* it fetched; so of two addReview calls that both fetch before either writes
\* and both complete, the stored reviews and rating reflect one review only.
C20_AddReviewOverwrites ==
    [][\A c \in Clients :
         (calls[c].op = "addReview" /\ calls'[c] = Idle) =>
            LET fetched == calls[c].product.reviews
                stored == products'[calls[c].productId].reviews
            IN  /\ last'.ret = "ok"
                /\ Len(stored) = Len(fetched) + 1
                /\ SubSeq(stored, 1, Len(fetched)) = fetched
                /\ stored[Len(stored)].rating = calls[c].rating
                /\ products'[calls[c].productId].rating = addReviewRating(stored)
                /\ last'.overwritten =
                     Range(products[calls[c].productId].reviews) \ Range(fetched)]_vars

\* two addReview calls have completed on a product without reviews: the
\* second has overwritten the review of the first, and one review is stored
C20_Witness ==
    /\ last.op = "addReview" /\ last.ret = "ok"
    /\ Cardinality(last.overwritten) = 1
    /\ NoCallRunning
    /\ Len(products[last.arg[1]].reviews) = 1
    /\ products[last.arg[1]].reviews[1].rating = last.arg[2]
    /\ \E r \in last.overwritten : r.rating # last.arg[2]
    /\ products[last.arg[1]].rating = Div(last.arg[2], 1)

\* C21: whenever cancelOrder writes the status Cancelled (it returns true),
\* the status stored for that order at the moment of the write is Pending,
\* also when calls of updateOrderStatus on the same order overlap it.
C21_CancelWritesOverPendingOnly ==
    [][\A c \in Clients :
         (calls[c].op = "cancelOrder" /\ calls'[c] = Idle /\ last'.ret = TRUE) =>
            orders[calls[c].orderId].status = "Pending"]_vars

----------------------------------------------------------------------------
(* Chat properties *)

\* the listeners a page holds, of one kind
Held(owner, kind) == {s \in subs : s.owner = owner /\ s.kind = kind}

\* C22: an all-chats listener is attached only while the dashboard shows
\* the support tab; a chat listener of the dashboard only while the support
\* tab shows that customer's chat; a chat listener of the profile page only
\* while it shows the chats tab of the signed-in customer; each page holds
\* at most one listener of a kind, so a listener is detached when its page
\* stops showing its view or the selected customer changes.
C22_SubscriptionsFollowViews ==
    /\ \A s \in subs :
          \/ /\ s.owner = "dash" /\ s.kind = "allChats"
             /\ dash.mounted /\ dash.activeTab = "support"
          \/ /\ s.owner = "dash" /\ s.kind = "chat"
             /\ dash.mounted /\ dash.activeTab = "support"
             /\ dash.activeChatUser = Some(s.userId)
          \/ /\ s.owner = "profile" /\ s.kind = "chat"
             /\ profilePage.mounted /\ profilePage.activeTab = "chats"
             /\ s.userId = user.id
    /\ \A owner \in {"dash", "profile"}, kind \in {"allChats", "chat"} :
          Cardinality(Held(owner, kind)) <= 1

\* the admin has left the support tab on which a customer's chat was shown:
\* both listeners it had attached are detached
C22_Witness ==
    /\ last.op = "setActiveTab" /\ last.arg = <<"orders">>
    /\ dash.mounted /\ dash.activeChatUser = Some("u3")
    /\ Len(dash.chatList) = 2
    /\ subs = {}

\* a conversation list with exactly one entry for each userId in the
\* collection, holding a stored message of that user that none of the
\* user's messages is later than
IsConversationList(list, coll) ==
    /\ {list[k].userId : k \in 1..Len(list)} = {coll[id].userId : id \in DOMAIN coll}
    /\ \A j, k \in 1..Len(list) : list[j].userId = list[k].userId => j = k
    /\ \A k \in 1..Len(list) :
          LET m == list[k].lastMessage
          IN  /\ m.id \in DOMAIN coll
              /\ m.userId = list[k].userId
              /\ coll[m.id] = [userId |-> m.userId, sender |-> m.sender,
                               text |-> m.text, timestamp |-> m.timestamp,
                               read |-> m.read]
              /\ \A id \in DOMAIN coll :
                    coll[id].userId = m.userId => coll[id].timestamp <= m.timestamp

\* C25: what getAllChats returns, and what the all-chats listener of the
\* dashboard has delivered last, has exactly one entry per userId occurring
\* in the stored messages, and the entry's lastMessage is a message of that
\* user with the greatest timestamp.
C25_OneEntryPerUserLatestMessage ==
    /\ last.op = "getAllChats" => IsConversationList(last.ret, chats)
    /\ dash.allChatsUnsub # None => IsConversationList(dash.chatList, chats)

\* getAllChats has returned two conversations from three messages written
\* at different times, the earliest and the latest by the same customer
C25_Witness ==
    /\ last.op = "getAllChats" /\ Len(last.ret) = 2
    /\ Cardinality(DOMAIN chats) = 3
    /\ \E a, b, c \in DOMAIN chats :
          /\ chats[a].timestamp < chats[b].timestamp
          /\ chats[b].timestamp < chats[c].timestamp
          /\ chats[a].userId = chats[c].userId
          /\ chats[b].userId # chats[a].userId
          /\ last.ret[1].lastMessage.id = c
          /\ last.ret[2].lastMessage.id = b
    /\ dash.allChatsUnsub # None /\ dash.chatList = last.ret

----------------------------------------------------------------------------
(* Scanner properties *)

\* C23: unless the orders tab of the dashboard is shown with the scanner
\* on, no camera stream has a live track and isScanning is false: the stream
\* is released by a scan, by the admin's cancelling, by leaving the tab or
\* the dashboard, and by a camera failure.
C23_CameraReleased ==
    ~VideoShown(dash) => streams = {} /\ ~dash.isScanning

----------------------------------------------------------------------------
(* Place-order properties *)

\* the payment method of a place-order continuation still running
MethodOf(k) == IF k.stage = "addDoc" THEN k.data.paymentMethod ELSE k.method

\* the place-order button is disabled
PlaceOrderDisabled == cart = <<>> \/ payment.isProcessing

\* C24: with Card the payment status goes from idle to processing at the
\* click and from processing to success before createOrder is called, the
\* order is written while the status is success, and the place-order button
\* is disabled from the click until the order is written; with COD the
\* click issues the order write at once, and the status stays idle from the
\* click to the write.
C24_CardThenWrite ==
    /\ [](\A i \in 1..Len(checkouts) :
            /\ MethodOf(checkouts[i]) = "Card" =>
                  /\ PlaceOrderDisabled
                  /\ payment.status =
                        IF checkouts[i].stage = "processing" THEN "processing"
                        ELSE "success"
            /\ MethodOf(checkouts[i]) = "COD" =>
                  /\ checkouts[i].stage = "addDoc"
                  /\ payment = [isProcessing |-> FALSE, status |-> "idle"])
    /\ [][/\ (last'.op = "handleOrder" /\ last' # last) =>
                /\ payment.status = "idle"
                /\ Len(checkouts') = Len(checkouts) + 1
                /\ checkouts'[Len(checkouts')].stage =
                      IF last'.arg[1] = "Card" THEN "processing" ELSE "addDoc"
          /\ \A id \in DOMAIN orders' \ DOMAIN orders :
                /\ orders'[id].paymentMethod = "Card" =>
                      payment = [isProcessing |-> TRUE, status |-> "success"]
                /\ orders'[id].paymentMethod = "COD" =>
                      payment = [isProcessing |-> FALSE, status |-> "idle"]
                /\ \E i \in 1..Len(checkouts) :
                      checkouts[i].stage = "addDoc" /\ checkouts[i].data = orders'[id]
          /\ payment'.status # payment.status =>
                \/ payment.status = "idle" /\ payment'.status = "processing"
                \/ payment.status = "processing" /\ payment'.status = "success"
                \/ payment.status = "success" /\ payment'.status = "idle"
                     /\ DOMAIN orders' # DOMAIN orders]_vars

\* a card order has been written: the payment went through processing and
\* success, and the button is enabled again only by a new cart
C24_Witness ==
    /\ last.op = "createOrder"
    /\ last.ret[2].paymentMethod = "Card"
    /\ last.ret[1] \in DOMAIN orders
    /\ payment = [isProcessing |-> FALSE, status |-> "idle"]
    /\ cart = <<>> /\ checkouts = <<>>

\* C27: every order write finds the cart still filled, that is, not yet
\* emptied by the write of an earlier order placed from the same cart (here
\* the cart is emptied by nothing else): one filled cart yields one order,
\* also when place-order is triggered again while a write is in flight.
C27_OneOrderPerCart ==
    [][DOMAIN orders' # DOMAIN orders => cart # <<>>]_vars

\* C26: no stored order has the userId of a profile with role admin.
C26_NoAdminOrders ==
    \A o \in DOMAIN orders :
        orders[o].userId \in DOMAIN users => users[orders[o].userId].role # "admin"

----------------------------------------------------------------------------
(* Product editor properties *)

\* C28: a save of the edit form that updates a stored product leaves the
\* reviews and the rating stored for it as they are in the store at the
\* time of the write.
C28_EditKeepsReviews ==
    [][(last'.op = "handleSaveProduct" /\ last'.ret = "ok" /\ last' # last) =>
          LET id == last'.arg[1]
          IN  /\ products'[id].reviews = products[id].reviews
              /\ products'[id].rating = products[id].rating]_vars

----------------------------------------------------------------------------
(* Address book properties *)

\* C29: when addAddress or removeAddress of the signed-in user completes,
\* the in-memory user and the profile cached in local storage have the
\* addresses the call wrote and the wishlist as it was just before the
\* completion, with every toggle made while the call was in flight.
C29_ToggleSurvivesAddressCall ==
    [][\A i \in 1..Len(pending) :
         (/\ pending[i].op \in {"saveAddress", "deleteAddress"}
          /\ pending' = RemovePending(i)
          /\ last'.op = pending[i].op /\ last'.ok
          /\ user.id = pending[i].user.id) =>
            /\ user'.addresses = pending[i].addresses
            /\ localUser'.addresses = pending[i].addresses
            /\ user'.wishlist = user.wishlist
            /\ localUser'.wishlist = user.wishlist]_vars

----------------------------------------------------------------------------
(* Settings initialisation properties *)

\* C30: the setDoc of the defaults by getSettings never replaces a settings
\* document that updateSettings has stored: when it is written, the document
\* is absent or holds the defaults.
C30_DefaultsNeverReplaceSaved ==
    [][\A c \in Clients :
         (calls[c].op = "getSettings" /\ calls'[c] = Idle) =>
            settingsDoc \in {None, Some(defaultSettings)}]_vars

====
